---- MODULE Spec2Model ----
(***************************************************************************)
(* Model of the tesla-ble HTTP-to-vehicle command orchestrator.            *)
(*                                                                         *)
(* Every request walks through validateAuth, the endpoint handler          *)
(* (handleExecCommand or handleGetDataCommand), execCommand /              *)
(* execDataCommand, prepareConnection and retryCommand.  Every call into   *)
(* the vehicle-command library (NewConnection, NewVehicle, Connect,        *)
(* StartSession, the remote commands, Disconnect, Close) and time.Sleep    *)
(* is one step; the outcome of a library call is chosen by the             *)
(* environment.  The process starts in serveHTTP, reads its configuration, *)
(* binds its listener, serves, and ends when os.Interrupt arrives.         *)
(***************************************************************************)
EXTENDS Integers, Sequences, FiniteSets, TLC

VARIABLES
    main,    \* position of the process: serveHTTP and its listening goroutine
    todo,    \* todo[r]: the teardown calls worker r has still to make
    environ, \* the environment variables ReadConfig reads
    configOnce, \* _configOnce: "idle" until Do has run its function
    reads,   \* how many times ReadConfig has run
    cfg,     \* _configInstance, the process-wide Config
    req,     \* req[r]: the inbound HTTP request handled by worker r
    pc,      \* pc[r]: position of worker r in the code
    call,    \* call[r]: which execCommand call of the handler is running
    body,    \* body[r]: the decoded parameter mapping
    conns,   \* conns[r]: the connections worker r has opened, in order
    tries,   \* tries[r]: retryCommand's attempt counter
    err,     \* err[r]: the error value being returned up the stack
    val,     \* val[r]: the value execDataCommand returns
    state,   \* state[r]: what car.GetState answered to the data handler
    ret,     \* ret[r]: what the data handler returned (value and error)
    resp,    \* resp[r]: the HTTP response written so far
    log      \* log[r]: the library calls and handler invocations, in order

vars == <<main, environ, todo, configOnce, reads, cfg, req, pc, call, body, conns, tries, err, val, state, ret, resp, log>>

----------------------------------------------------------------------------
(* Strings that the code inspects are sequences of characters or tokens.   *)

Reqs == {1, 2}

\* slices.Contains(s, v)
SlicesContains(s, v) == \E i \in 1..Len(s) : s[i] = v

\* strings.Contains(s, substr): substr occurs as a contiguous run of s
StringsContains(s, substr) ==
    \E i \in 0..(Len(s) - Len(substr)) : SubSeq(s, i + 1, i + Len(substr)) = substr

----------------------------------------------------------------------------
(* The registries                                                          *)

commands ==
    [pair              |-> "cmdPairVehicle",
     wake_up           |-> "cmdWakeUp",
     set_charging_amps |-> "cmdSetChargingAmps",
     set_soc_limit     |-> "cmdSetSocLimit",
     charge            |-> "cmdChargeEnable",
     charge_start      |-> "cmdChargeStart",
     charge_stop       |-> "cmdChargeStop"]

dataCommands ==
    [get_soc           |-> "getSoc",
     get_soc_limit     |-> "getLimitSoc",
     get_battery_range |-> "getBatteryRange",
     get_charge_state  |-> "getChargeState"]

wakeCommands_noPair == <<"wake_up">>

wakeCommands == <<"wake_up", "pair">>

needWakeUp_inverted(command) == SlicesContains(wakeCommands, command)

needWakeUp_registered(command) ==
    command \in DOMAIN commands /\ ~SlicesContains(wakeCommands, command)

needWakeUp(command) == ~SlicesContains(wakeCommands, command)

----------------------------------------------------------------------------
(* strconv.ParseInt(s, 10, 32) on a string given as its characters: the   *)
(* result is [ok, val, err].  Large numbers are compared as digit strings  *)
(* and the value is accumulated as a negative number, so that every        *)
(* intermediate value is an int32.                                         *)

MaxInt32 == 2147483647
MinInt32 == (-MaxInt32) - 1

DigitVal ==
    [c \in {"0", "1", "2", "3", "4", "5", "6", "7", "8", "9"} |->
        CASE c = "0" -> 0 [] c = "1" -> 1 [] c = "2" -> 2 [] c = "3" -> 3
          [] c = "4" -> 4 [] c = "5" -> 5 [] c = "6" -> 6 [] c = "7" -> 7
          [] c = "8" -> 8 [] c = "9" -> 9]

IsDigit(c) == c \in DOMAIN DigitVal

RECURSIVE StripZeros(_)
StripZeros(d) == IF Len(d) > 1 /\ Head(d) = "0" THEN StripZeros(Tail(d)) ELSE d

\* a < b for digit strings of equal length
DigitsLess(a, b) ==
    \E i \in 1..Len(a) :
        /\ DigitVal[a[i]] < DigitVal[b[i]]
        /\ \A j \in 1..(i - 1) : a[j] = b[j]

\* the digit string d spells a number greater than the digit string lim
DigitsExceed(d, lim) ==
    LET t == StripZeros(d)
    IN  Len(t) > Len(lim) \/ (Len(t) = Len(lim) /\ DigitsLess(lim, t))

\* 1<<32 - 1, 1<<31 - 1 and 1<<31 as digit strings
MaxUint32Digits == <<"4", "2", "9", "4", "9", "6", "7", "2", "9", "5">>
MaxDigits == <<"2", "1", "4", "7", "4", "8", "3", "6", "4", "7">>
MinDigits == <<"2", "1", "4", "7", "4", "8", "3", "6", "4", "8">>

RECURSIVE NegValue(_, _)
\* minus the number the digit string d spells, given the part read so far
NegValue(d, acc) ==
    IF d = <<>> THEN acc ELSE NegValue(Tail(d), acc * 10 - DigitVal[Head(d)])

\* ParseUint reads the digits from the left: it reports a range error as
\* soon as the number read exceeds 1<<32 - 1 and a syntax error at the
\* first character that is no digit; ParseInt then checks the int32 range
\* and returns the nearest bound with a range error.
ParseInt(s) ==
    LET neg    == Len(s) >= 1 /\ s[1] = "-"
        signed == Len(s) >= 1 /\ s[1] \in {"+", "-"}
        d      == IF signed THEN Tail(s) ELSE s
        bound  == IF neg THEN MinInt32 ELSE MaxInt32
        over   == \E i \in 1..Len(d) :
                     /\ \A j \in 1..i : IsDigit(d[j])
                     /\ DigitsExceed(SubSeq(d, 1, i), MaxUint32Digits)
    IN  IF d = <<>> THEN [ok |-> FALSE, val |-> 0, err |-> "invalid syntax"]
        ELSE IF over THEN [ok |-> FALSE, val |-> bound, err |-> "value out of range"]
        ELSE IF \E i \in 1..Len(d) : ~IsDigit(d[i])
        THEN [ok |-> FALSE, val |-> 0, err |-> "invalid syntax"]
        ELSE IF DigitsExceed(d, IF neg THEN MinDigits ELSE MaxDigits)
        THEN [ok |-> FALSE, val |-> bound, err |-> "value out of range"]
        ELSE [ok |-> TRUE, err |-> "",
              val |-> IF neg THEN NegValue(d, 0) ELSE -NegValue(d, 0)]

\* strconv.Atoi(s) on a string of fewer than 19 characters, which Atoi
\* reads itself: an optional sign, then digits only, at least one
Atoi(s) ==
    LET signed == Len(s) >= 1 /\ s[1] \in {"+", "-"}
        d      == IF signed THEN Tail(s) ELSE s
    IN  IF d = <<>> \/ \E i \in 1..Len(d) : ~IsDigit(d[i])
        THEN [ok |-> FALSE, val |-> 0, err |-> "invalid syntax"]
        ELSE [ok |-> TRUE, err |-> "",
              val |-> IF s[1] = "-" THEN NegValue(d, 0) ELSE -NegValue(d, 0)]

----------------------------------------------------------------------------
(* Error values.  An error is its identity (errors.Is compares identity)   *)
(* and its message, a sequence of tokens.                                  *)

Nil == [id |-> "nil", msg |-> <<>>]

errCmdNotFound == [id |-> "errCmdNotFound", msg |-> <<"command not found">>]

\* errors.New(text)
ErrorsNew(text) == [id |-> "new", msg |-> <<text>>]

\* fmt.Errorf(prefix + "%s", e): a new error, e's identity is lost
Errorf(prefix, e) == [id |-> "new", msg |-> <<prefix>> \o e.msg]

\* errors.Is(e, errCmdNotFound)
IsCmdNotFound(e) == e.id = errCmdNotFound.id

\* What a remote command can answer: success, or an error of the vehicle.
RemoteErrors ==
    { [id |-> "new", msg |-> <<"car could not execute command:", "already_started">>],
      [id |-> "new", msg |-> <<"car could not execute command:", "is_charging">>],
      [id |-> "new", msg |-> <<"car could not execute command:", "not_charging">>],
      [id |-> "new", msg |-> <<"context deadline exceeded">>] }

RemoteResults == {Nil} \cup RemoteErrors

\* The answers the vehicle gives to a remote command: the charging
\* conflicts are answers to ChargeStart and ChargeStop only.
AnswersTo(op) ==
    IF op \in {"ChargeStart", "ChargeStop"}
    THEN RemoteResults
    ELSE {Nil, [id |-> "new", msg |-> <<"context deadline exceeded">>]}

\* The answers possible for the remote commands a handler run sent; a run
\* that sent none consumed no answer.
AnswersFor(calls) == IF calls = <<>> THEN {Nil} ELSE AnswersTo(calls[1].op)

----------------------------------------------------------------------------
(* The parameter mapping: JSON values by key.  A JSON string is its        *)
(* characters.                                                             *)

JString(chars) == [t |-> "string", s |-> chars, n |-> 0]
JNumber(k)     == [t |-> "number", s |-> <<>>, n |-> k]
JBool(b)       == [t |-> "bool", s |-> IF b THEN <<"true">> ELSE <<"false">>, n |-> 0]

\* body[key].(string): the comma-ok type assertion on a map lookup
AsString(m, key) ==
    IF key \in DOMAIN m /\ m[key].t = "string"
    THEN [ok |-> TRUE, s |-> m[key].s]
    ELSE [ok |-> FALSE, s |-> <<>>]

\* a remote command sent to the vehicle
Remote(op, arg) == [op |-> op, arg |-> arg]

\* the literal "true" as characters
TrueChars == <<"t", "r", "u", "e">>

----------------------------------------------------------------------------
(* Action handlers: (params, res) -> [err, calls], where res is the        *)
(* vehicle's answer to the remote command if the handler sends one and     *)
(* calls are the remote commands sent.                                     *)

cmdPairVehicle(m, res) ==
    [calls |-> <<Remote("SendAddKeyRequest", cfg.PublicKey)>>,
     err   |-> IF res # Nil THEN Errorf("failed to send add key request:", res) ELSE Nil]

cmdWakeUp(m, res) ==
    [calls |-> <<Remote("Wakeup", 0)>>,
     err   |-> IF res # Nil THEN Errorf("failed to wake up vehicle:", res) ELSE Nil]

cmdSetChargingAmps_truncating(m, res) ==
    LET a == AsString(m, "charging_amps")
        p == ParseInt(a.s)
    IN  [calls |-> <<Remote("SetChargingAmps", p.val)>>,
         err   |-> IF res # Nil THEN Errorf("failed to set charging amps:", res) ELSE Nil]

cmdSetChargingAmps_acceptsNumber(m, res) ==
    LET a == AsString(m, "charging_amps")
        p == ParseInt(a.s)
    IN  IF "charging_amps" \in DOMAIN m /\ m["charging_amps"].t = "number"
        THEN [calls |-> <<Remote("SetChargingAmps", m["charging_amps"].n)>>,
              err   |-> IF res # Nil THEN Errorf("failed to set charging amps:", res) ELSE Nil]
        ELSE IF ~a.ok
        THEN [calls |-> <<>>, err |-> ErrorsNew("failed to find charging_amps in request body")]
        ELSE IF ~p.ok
        THEN [calls |-> <<>>, err |-> Errorf("failed to parse charging_amps to int:", ErrorsNew(p.err))]
        ELSE [calls |-> <<Remote("SetChargingAmps", p.val)>>,
              err   |-> IF res # Nil THEN Errorf("failed to set charging amps:", res) ELSE Nil]

cmdSetChargingAmps(m, res) ==
    LET a == AsString(m, "charging_amps")
        p == ParseInt(a.s)
    IN  IF ~a.ok
        THEN [calls |-> <<>>, err |-> ErrorsNew("failed to find charging_amps in request body")]
        ELSE IF ~p.ok
        THEN [calls |-> <<>>, err |-> Errorf("failed to parse charging_amps to int:", ErrorsNew(p.err))]
        ELSE [calls |-> <<Remote("SetChargingAmps", p.val)>>,
              err   |-> IF res # Nil THEN Errorf("failed to set charging amps:", res) ELSE Nil]

cmdSetSocLimit_saturating(m, res) ==
    LET a == AsString(m, "soc_limit")
        p == ParseInt(a.s)
    IN  IF ~a.ok
        THEN [calls |-> <<>>, err |-> ErrorsNew("failed to find soc_limit in request body")]
        ELSE IF ~p.ok /\ p.err # "value out of range"
        THEN [calls |-> <<>>, err |-> Errorf("failed to parse soc_limit to int:", ErrorsNew(p.err))]
        ELSE [calls |-> <<Remote("ChangeChargeLimit", p.val)>>,
              err   |-> IF res # Nil THEN Errorf("failed to set soc limit:", res) ELSE Nil]

cmdSetSocLimit(m, res) ==
    LET a == AsString(m, "soc_limit")
        p == ParseInt(a.s)
    IN  IF ~a.ok
        THEN [calls |-> <<>>, err |-> ErrorsNew("failed to find soc_limit in request body")]
        ELSE IF ~p.ok
        THEN [calls |-> <<>>, err |-> Errorf("failed to parse soc_limit to int:", ErrorsNew(p.err))]
        ELSE [calls |-> <<Remote("ChangeChargeLimit", p.val)>>,
              err   |-> IF res # Nil THEN Errorf("failed to set soc limit:", res) ELSE Nil]

cmdChargeStart_noAbsorb(m, res) ==
    [calls |-> <<Remote("ChargeStart", 0)>>,
     err   |-> IF res # Nil THEN Errorf("failed to start charging:", res) ELSE Nil]

cmdChargeStart(m, res) ==
    [calls |-> <<Remote("ChargeStart", 0)>>,
     err   |-> IF res # Nil
               THEN IF \/ StringsContains(res.msg, <<"already_started">>)
                       \/ StringsContains(res.msg, <<"is_charging">>)
                    THEN Nil
                    ELSE Errorf("failed to start charging:", res)
               ELSE Nil]

cmdChargeStop_absorbAll(m, res) ==
    [calls |-> <<Remote("ChargeStop", 0)>>, err |-> Nil]

cmdChargeStop(m, res) ==
    [calls |-> <<Remote("ChargeStop", 0)>>,
     err   |-> IF res # Nil
               THEN IF StringsContains(res.msg, <<"not_charging">>)
                    THEN Nil
                    ELSE Errorf("failed to stop charging:", res)
               ELSE Nil]

cmdChargeEnable_anyType(m, res) ==
    IF "enable" \notin DOMAIN m
    THEN [calls |-> <<>>, err |-> ErrorsNew("failed to find enable in request body")]
    ELSE IF m["enable"].s \in {TrueChars, <<"true">>} THEN cmdChargeStart(m, res)
    ELSE cmdChargeStop(m, res)

cmdChargeEnable(m, res) ==
    LET e == AsString(m, "enable")
    IN  IF ~e.ok
        THEN [calls |-> <<>>, err |-> ErrorsNew("failed to find enable in request body")]
        ELSE IF e.s = TrueChars THEN cmdChargeStart(m, res)
        ELSE cmdChargeStop(m, res)

\* cmdFunc(car, body) for the function registered under a name
CallCmdFunc(fn, m, res) ==
    CASE fn = "cmdPairVehicle"     -> cmdPairVehicle(m, res)
      [] fn = "cmdWakeUp"          -> cmdWakeUp(m, res)
      [] fn = "cmdSetChargingAmps" -> cmdSetChargingAmps(m, res)
      [] fn = "cmdSetSocLimit"     -> cmdSetSocLimit(m, res)
      [] fn = "cmdChargeEnable"    -> cmdChargeEnable(m, res)
      [] fn = "cmdChargeStart"     -> cmdChargeStart(m, res)
      [] fn = "cmdChargeStop"      -> cmdChargeStop(m, res)

----------------------------------------------------------------------------
(* Data handlers: the vehicle's answer to GetState -> [val, err].          *)

NoValue == [t |-> "none", s |-> <<>>, n |-> 0]

\* a float32: a finite value, kept in tenths, or NaN, +Inf, -Inf
Finite(k) == [tenths |-> k, special |-> ""]
NaN == [tenths |-> 0, special |-> "NaN"]
PosInf == [tenths |-> 0, special |-> "+Inf"]
NegInf == [tenths |-> 0, special |-> "-Inf"]

\* a float32 as the value handed to sendJSON
JFloat(f) ==
    [t |-> "float", s |-> IF f.special = "" THEN <<>> ELSE <<f.special>>, n |-> f.tenths]

ChargingStates ==
    {"unset", "Unknown", "Disconnected", "NoPower", "Starting", "Charging",
     "Complete", "Stopped", "Calibrating"}

\* what car.GetState can answer: an error, or a charge state snapshot
StateResults ==
    { [err |-> e, BatteryLevel |-> 0, ChargeLimitSoc |-> 0, BatteryRange |-> Finite(0),
       ChargingState |-> "unset"] : e \in RemoteErrors }
    \cup
    { [err |-> Nil, BatteryLevel |-> 55, ChargeLimitSoc |-> 80, BatteryRange |-> Finite(2105),
       ChargingState |-> cs] : cs \in ChargingStates }
    \cup
    { [err |-> Nil, BatteryLevel |-> 55, ChargeLimitSoc |-> 80, BatteryRange |-> f,
       ChargingState |-> "Charging"] : f \in {NaN, PosInf, NegInf} }

\* no state has been read
NoState ==
    [err |-> Nil, BatteryLevel |-> 0, ChargeLimitSoc |-> 0, BatteryRange |-> Finite(0),
     ChargingState |-> "unset"]

getSoc(data) ==
    IF data.err # Nil
    THEN [val |-> JNumber(0), err |-> Errorf("failed to get state:", data.err)]
    ELSE [val |-> JNumber(data.BatteryLevel), err |-> Nil]

getLimitSoc(data) ==
    IF data.err # Nil
    THEN [val |-> JNumber(0), err |-> Errorf("failed to get state:", data.err)]
    ELSE [val |-> JNumber(data.ChargeLimitSoc), err |-> Nil]

getBatteryRange(data) ==
    IF data.err # Nil
    THEN [val |-> JNumber(0), err |-> Errorf("failed to get state:", data.err)]
    ELSE [val |-> JFloat(data.BatteryRange), err |-> Nil]

getChargeState_completeIsIdle(data) ==
    IF data.err # Nil
    THEN [val |-> JString(<<"A">>), err |-> Errorf("failed to get state:", data.err)]
    ELSE IF data.ChargingState = "Charging"
    THEN [val |-> JString(<<"C">>), err |-> Nil]
    ELSE IF data.ChargingState \in {"Stopped", "NoPower"}
    THEN [val |-> JString(<<"B">>), err |-> Nil]
    ELSE [val |-> JString(<<"A">>), err |-> Nil]

getChargeState(data) ==
    IF data.err # Nil
    THEN [val |-> JString(<<"A">>), err |-> Errorf("failed to get state:", data.err)]
    ELSE IF data.ChargingState = "Charging"
    THEN [val |-> JString(<<"C">>), err |-> Nil]
    ELSE IF data.ChargingState \in {"Stopped", "NoPower", "Complete"}
    THEN [val |-> JString(<<"B">>), err |-> Nil]
    ELSE [val |-> JString(<<"A">>), err |-> Nil]

\* cmdFunc(car) for the function registered under a name
CallDataFunc(fn, data) ==
    CASE fn = "getSoc"          -> getSoc(data)
      [] fn = "getLimitSoc"     -> getLimitSoc(data)
      [] fn = "getBatteryRange" -> getBatteryRange(data)
      [] fn = "getChargeState"  -> getChargeState(data)

----------------------------------------------------------------------------
(* The request body and json.Decoder.Decode into a map.                    *)

\* a raw body: what kind of text it is and, for an object, its members
RawBody(kind, kv) == [kind |-> kind, kv |-> kv]

NoParams == [k \in {} |-> NoValue]

\* Decode(&body): the error text ("" for nil) and the mapping left in body
Decode(raw) ==
    CASE raw.kind = "empty"     -> [err |-> "EOF", isNil |-> TRUE, kv |-> NoParams]
      [] raw.kind = "object"    -> [err |-> "", isNil |-> FALSE, kv |-> raw.kv]
      [] raw.kind = "null"      -> [err |-> "", isNil |-> TRUE, kv |-> NoParams]
      [] raw.kind = "truncated" -> [err |-> "unexpected EOF", isNil |-> TRUE, kv |-> NoParams]
      [] raw.kind = "array"     ->
            [err |-> "json: cannot unmarshal array into Go value of type map[string]interface {}",
             isNil |-> TRUE, kv |-> NoParams]

\* the condition under which handleExecCommand rejects the body
BodyRejected_strict(d) == d.err # ""

BodyRejected_lenient(d) == FALSE

BodyRejected(d) == d.err # "" /\ d.err # "EOF"

----------------------------------------------------------------------------
(* Connections, the call log and responses.                                *)

\* a connection opened by ble.NewConnection for one execCommand call
NewConn(command, vin, timeout) ==
    [cmd |-> command, vin |-> vin, timeout |-> timeout, closes |-> 0,
     vehicle |-> FALSE, connected |-> FALSE, session |-> "none", disconnects |-> 0]

\* a library call or a handler invocation; conn is the index in conns[r],
\* arg the argument of a remote command, the attempt number of a handler
\* invocation, or the domains handed to StartSession
Ev(op, conn, arg, ok) ==
    [op |-> op, conn |-> conn, arg |-> arg, ok |-> ok, msg |-> <<>>, call |-> "none"]

\* a remote command and the vehicle's answer to it
EvRemote(op, conn, arg, res) ==
    [op |-> op, conn |-> conn, arg |-> arg, ok |-> (res = Nil), msg |-> res.msg,
     call |-> "none"]

\* log entries marked with the execCommand call they belong to
Stamp(c, evs) == [i \in 1..Len(evs) |-> [evs[i] EXCEPT !.call = c]]

NoResp == [status |-> 0, val |-> NoValue, text |-> ""]

\* the text the code passes to http.Error with each status
StatusText(code) ==
    CASE code = 400 -> "Bad Request"
      [] code = 401 -> "Unauthorized"
      [] code = 404 -> "Not Found"
      [] code = 500 -> "Internal Server Error"

\* http.Error(w, text, code)
HttpError(code) == [status |-> code, val |-> NoValue, text |-> StatusText(code)]

\* json.Marshal(v) returns an error: v is a float that is NaN or infinite
MarshalFails(v) == v.t = "float" /\ v.s # <<>>

SendJSON_noMarshalError(v) == [status |-> 200, val |-> v, text |-> ""]

\* sendJSON(w, v)
SendJSON(v) ==
    IF MarshalFails(v) THEN HttpError(500) ELSE [status |-> 200, val |-> v, text |-> ""]

\* the command that the running execCommand call was given
CurCommand(r) == IF call[r] = "wake" THEN "wake_up" ELSE req[r].command

\* the connection the running call holds
Cur(r) == Len(conns[r])

\* teardown calls made by the code, applied to a connection and logged
RECURSIVE TeardownConn(_, _)
TeardownConn(c, ops) ==
    IF ops = <<>> THEN c
    ELSE TeardownConn(
            IF Head(ops) = "Close" THEN [c EXCEPT !.closes = @ + 1]
            ELSE [c EXCEPT !.disconnects = @ + 1],
            Tail(ops))

TeardownLog(k, ops) == [i \in 1..Len(ops) |-> Ev(ops[i], k, 0, TRUE)]

\* the timeout prepareConnection chooses
ShortTimeout == 5
LongTimeout == 30

\* the command names a request can carry: the registered ones, the README's
\* "wakeup" and an unregistered "get_speed"
CommandNames ==
    {"pair", "wake_up", "set_charging_amps", "set_soc_limit", "charge", "charge_start", "charge_stop",
     "get_soc", "get_soc_limit", "get_battery_range", "get_charge_state", "wakeup", "get_speed"}

\* the characters of a command name
Chars(n) ==
    CASE n = "pair" -> <<"p", "a", "i", "r">>
      [] n = "wake_up" -> <<"w", "a", "k", "e", "_", "u", "p">>
      [] n = "set_charging_amps" -> <<"s", "e", "t", "_", "c", "h", "a", "r", "g", "i", "n", "g", "_", "a", "m", "p", "s">>
      [] n = "set_soc_limit" -> <<"s", "e", "t", "_", "s", "o", "c", "_", "l", "i", "m", "i", "t">>
      [] n = "charge" -> <<"c", "h", "a", "r", "g", "e">>
      [] n = "charge_start" -> <<"c", "h", "a", "r", "g", "e", "_", "s", "t", "a", "r", "t">>
      [] n = "charge_stop" -> <<"c", "h", "a", "r", "g", "e", "_", "s", "t", "o", "p">>
      [] n = "get_soc" -> <<"g", "e", "t", "_", "s", "o", "c">>
      [] n = "get_soc_limit" -> <<"g", "e", "t", "_", "s", "o", "c", "_", "l", "i", "m", "i", "t">>
      [] n = "get_battery_range" -> <<"g", "e", "t", "_", "b", "a", "t", "t", "e", "r", "y", "_", "r", "a", "n", "g", "e">>
      [] n = "get_charge_state" -> <<"g", "e", "t", "_", "c", "h", "a", "r", "g", "e", "_", "s", "t", "a", "t", "e">>
      [] n = "wakeup" -> <<"w", "a", "k", "e", "u", "p">>
      [] n = "get_speed" -> <<"g", "e", "t", "_", "s", "p", "e", "e", "d">>

\* strings.Index(s, substr): the first position (from 0) of substr in s, or -1
StringsIndex(s, substr) ==
    LET hits == {i \in 0..(Len(s) - Len(substr)) :
                    SubSeq(s, i + 1, i + Len(substr)) = substr}
    IN  IF hits = {} THEN -1 ELSE CHOOSE i \in hits : \A j \in hits : i <= j

ConnTimeout_alwaysLong(command) == LongTimeout

\* prepareConnection's timeout for a command
ConnTimeout(command) ==
    IF StringsIndex(Chars(command), <<"g", "e", "t", "_">>) = 0
    THEN ShortTimeout ELSE LongTimeout

\* the domains prepareConnection hands to StartSession
SessionDomains(command) == IF command = "wake_up" THEN "vcsec" ELSE "all"

NeedsSession_always(command) == TRUE

\* whether prepareConnection performs the handshake
NeedsSession(command) == command # "pair"

\* the teardown calls of prepareConnection's and execCommand's exit paths
NewVehicleFailTeardown == <<"Close">>
ConnectFailTeardown_disconnects == <<"Disconnect", "Close">>
ConnectFailTeardown == <<"Close">>
SessionFailTeardown_leak == <<"Disconnect">>
SessionFailTeardown == <<"Disconnect", "Close">>
DeferredTeardown_noClose == <<"Disconnect">>
DeferredTeardown_closeFirst == <<"Close", "Disconnect">>
DeferredTeardown == <<"Disconnect", "Close">>

\* retryCommand's attempt ceiling
MaxTries_four == 3 + 1
MaxTries == 3

\* the settle delay after a successful wake-up, in seconds
SettleDelay == 5

----------------------------------------------------------------------------
(* The requests the model is run on.                                       *)

\* request bodies: none, broken ones, and objects with the handlers' keys
Bodies ==
    { RawBody("empty", NoParams),
      RawBody("truncated", NoParams),
      RawBody("array", NoParams),
      RawBody("null", NoParams),
      RawBody("object", NoParams),
      RawBody("object", [k \in {"charging_amps", "soc_limit", "enable"} |->
            CASE k = "charging_amps" -> JString(<<"1", "6">>)
              [] k = "soc_limit"     -> JString(<<"7", "0">>)
              [] k = "enable"        -> JString(TrueChars)]),
      RawBody("object", [k \in {"charging_amps", "soc_limit", "enable"} |->
            CASE k = "charging_amps" -> JString(<<"s", "i", "x", "t", "e", "e", "n">>)
              [] k = "soc_limit"     -> JString(<<"7", "0", "%">>)
              [] k = "enable"        -> JString(<<"f", "a", "l", "s", "e">>)]),
      RawBody("object", [k \in {"charging_amps", "soc_limit", "enable"} |->
            CASE k = "charging_amps" -> JNumber(16)
              [] k = "soc_limit"     -> JNumber(70)
              [] k = "enable"        -> JBool(TRUE)]),
      RawBody("object", [k \in {"charging_amps", "soc_limit", "enable"} |->
            CASE k = "charging_amps" -> JString(<<"-", "5">>)
              [] k = "soc_limit"     -> JString(<<"+", "1", "0", "0">>)
              [] k = "enable"        -> JString(<<"T", "r", "u", "e">>)]),
      RawBody("object", [k \in {"charging_amps", "soc_limit"} |->
            CASE k = "charging_amps" -> JString(<<"2", "1", "4", "7", "4", "8", "3", "6", "4", "8">>)
              [] k = "soc_limit"     -> JString(<<"-", "2", "1", "4", "7", "4", "8", "3", "6", "4", "8">>)]),
      RawBody("object", [k \in {"charging_amps", "soc_limit"} |->
            CASE k = "charging_amps" -> JString(<<>>)
              [] k = "soc_limit"     -> JString(<<"4", "2", "9", "4", "9", "6", "7", "3", "1", "2">>)]),
      RawBody("object", [k \in {"charging_amps", "soc_limit"} |->
            CASE k = "charging_amps" -> JString(<<"2", "1", "4", "7", "4", "8", "3", "6", "4", "7">>)
              [] k = "soc_limit"     -> JString(<<"-", "2", "1", "4", "7", "4", "8", "3", "6", "4", "9">>)]) }

NoAuth == [ok |-> FALSE, username |-> "", password |-> ""]

BasicAuth(u, p) == [ok |-> TRUE, username |-> u, password |-> p]

Request(endpoint, vin, command, raw, auth) ==
    [endpoint |-> endpoint, vin |-> vin, command |-> command, raw |-> raw, auth |-> auth]

\* the worker that handles no request
NoReq == Request("none", "", "", RawBody("empty", NoParams), NoAuth)

OpenConfig == [Username |-> "", Password |-> ""]

\* one request to an unprotected server: every command name with every
\* body on the command endpoint, every command name on the data endpoint,
\* and requests without a target
PlainRequests ==
    { Request("command", "VIN1", c, b, NoAuth) : c \in CommandNames, b \in Bodies }
    \cup { Request("data", "VIN1", c, RawBody("empty", NoParams), NoAuth) : c \in CommandNames }
    \cup { Request(e, "", c, RawBody("empty", NoParams), NoAuth) :
             e \in {"command", "data"}, c \in {"charge_start", "get_soc", "wakeup"} }

\* one request to a server with credentials configured
Credentials == {"", "admin", "secret"}

AuthRequests ==
    { Request(e, "VIN1", "pair", RawBody("empty", NoParams), a) :
        e \in {"command", "data"},
        a \in {NoAuth} \cup { BasicAuth(u, p) : u \in Credentials, p \in Credentials } }

Configs == { [Username |-> u, Password |-> p] : u \in {"", "admin"}, p \in {"", "secret"} }

\* two concurrent requests to one target on an unprotected server
Concurrent(e, c) == Request(e, "VIN1", c, RawBody("empty", NoParams), NoAuth)

ConcurrentRequests ==
    { <<Concurrent("command", "pair"), Concurrent("command", "wake_up")>>,
      <<Concurrent("data", "get_soc"), Concurrent("command", "wake_up")>>,
      <<Concurrent("command", "charge_start"), Concurrent("command", "wake_up")>>,
      <<Concurrent("command", "charge_start"), Concurrent("data", "get_soc")>> }

----------------------------------------------------------------------------
(* The process-wide configuration.                                         *)

\* the key files: the defaults of ReadConfig, the cache files of a key
\* fetched over http(s), and the values the environment may hold
DefaultPrivateKeyFile == <<".", "/", "p", "r", "i", "v", "a", "t", "e", ".", "p", "e", "m">>
DefaultPublicKeyFile == <<".", "/", "p", "u", "b", "l", "i", "c", ".", "p", "e", "m">>
CachedPrivateKeyFile == <<"/", "t", "m", "p", "/", "p", "r", "i", "v", "a", "t", "e", ".", "p", "e", "m">>
CachedPublicKeyFile == <<"/", "t", "m", "p", "/", "p", "u", "b", "l", "i", "c", ".", "p", "e", "m">>
Unset == <<>>
AppPrivateKeyFile == <<"/", "a", "p", "p", "/", "p", "r", "i", "v", "a", "t", "e", ".", "p", "e", "m">>
AppPublicKeyFile == <<"/", "a", "p", "p", "/", "p", "u", "b", "l", "i", "c", ".", "p", "e", "m">>
HttpsPublicKeyFile == <<"h", "t", "t", "p", "s", ":", "/", "/", "e", "x", "a", "m", "p", "l", "e", ".", "o", "r", "g", "/", "p", "u", "b", "l", "i", "c", ".", "p", "e", "m">>
HttpPrivateKeyFile == <<"h", "t", "t", "p", ":", "/", "/", "e", "x", "a", "m", "p", "l", "e", ".", "o", "r", "g", "/", "p", "r", "i", "v", "a", "t", "e", ".", "p", "e", "m">>

\* PRIVATE_KEY and PUBLIC_KEY as set in the environment
KeyEnvs ==
    { [PRIVATE_KEY |-> Unset, PUBLIC_KEY |-> Unset],
      [PRIVATE_KEY |-> AppPrivateKeyFile, PUBLIC_KEY |-> AppPublicKeyFile],
      [PRIVATE_KEY |-> AppPrivateKeyFile, PUBLIC_KEY |-> HttpsPublicKeyFile],
      [PRIVATE_KEY |-> HttpPrivateKeyFile, PUBLIC_KEY |-> Unset],
      [PRIVATE_KEY |-> AppPublicKeyFile, PUBLIC_KEY |-> AppPublicKeyFile] }

\* PORT as set in the environment, and ReadConfig's default
DefaultPort == <<"8", "0", "8", "0">>
PortEnvs == { Unset, <<"9", "0", "9", "0">>, <<"a", "b", "c">>, <<"7", "0", "0", "0", "0">> }

\* getEnv(key, defaultValue)
getEnv(value, defaultValue) == IF value = <<>> THEN defaultValue ELSE value

\* the key file has to be fetched: its name starts with http:// or https://
IsHttpFile(file) ==
    \/ StringsIndex(file, <<"h", "t", "t", "p", ":", "/", "/">>) = 0
    \/ StringsIndex(file, <<"h", "t", "t", "p", "s", ":", "/", "/">>) = 0

\* the file a key is loaded from: the one named, or the cache file
KeyFile(file, cache) == IF IsHttpFile(file) THEN cache ELSE file

\* the key protocol.LoadPrivateKey / protocol.LoadPublicKey makes of a file
NoKey == [file |-> <<>>]
KeyIn(file) == [file |-> file]

\* what reading the key files may answer: each fetch and each load fails or
\* succeeds
LibAnswers == [fetchPrivate : BOOLEAN, loadPrivate : BOOLEAN,
               fetchPublic : BOOLEAN, loadPublic : BOOLEAN]

\* _configInstance before GetConfig has been called
NilConfig ==
    [Port |-> 0, Username |-> "", Password |-> "", PrivateKey |-> NoKey, PublicKey |-> NoKey]

\* ReadConfig: the port from PORT, USERNAME and PASSWORD as given, the keys
\* from their files; panic when PORT is no number or a key cannot be
\* fetched or loaded
ReadConfig(env, lib) ==
    LET port           == Atoi(getEnv(env.PORT, DefaultPort))
        privateKeyFile == getEnv(env.PRIVATE_KEY, DefaultPrivateKeyFile)
        publicKeyFile  == getEnv(env.PUBLIC_KEY, DefaultPublicKeyFile)
        private        == KeyFile(privateKeyFile, CachedPrivateKeyFile)
        public         == KeyFile(publicKeyFile, CachedPublicKeyFile)
    IN  [panic  |-> \/ ~port.ok
                    \/ IsHttpFile(privateKeyFile) /\ ~lib.fetchPrivate
                    \/ ~lib.loadPrivate
                    \/ IsHttpFile(publicKeyFile) /\ ~lib.fetchPublic
                    \/ ~lib.loadPublic,
         config |-> [Port |-> port.val, Username |-> env.Username, Password |-> env.Password,
                     PrivateKey |-> KeyIn(private),
                     \* protocol.LoadPublicKey(privateKeyFile)
                     PublicKey  |-> KeyIn(private)]]

RunsReadConfig_noOnce(once) == TRUE

\* _configOnce.Do: whether this call runs the function
RunsReadConfig(once) == once = "idle"

\* this GetConfig() call runs ReadConfig, which panics
Panics(lib) == RunsReadConfig(configOnce) /\ ReadConfig(environ, lib).panic

\* GetConfig() with the key files answering lib: _configOnce and
\* _configInstance after the call
GetConfigWith(lib) ==
    /\ cfg' = IF RunsReadConfig(configOnce) /\ ~Panics(lib)
              THEN ReadConfig(environ, lib).config ELSE cfg
    /\ reads' = IF RunsReadConfig(configOnce) THEN reads + 1 ELSE reads
    /\ configOnce' = "done"

\* every fetch and every load succeeds
AllLoaded == [fetchPrivate |-> TRUE, loadPrivate |-> TRUE,
              fetchPublic |-> TRUE, loadPublic |-> TRUE]

\* GetConfig(): the call has returned the instance cfg'
GetConfig ==
    \E lib \in (IF RunsReadConfig(configOnce) THEN LibAnswers ELSE {AllLoaded}) :
        ~Panics(lib) /\ GetConfigWith(lib)

\* a step that calls GetConfig() only when called is true
GetConfigIf(called) ==
    IF called THEN GetConfig ELSE UNCHANGED <<cfg, configOnce, reads>>

\* a pair request to an unprotected server, for each setting of the key files
KeyRequests == { Request("command", "VIN1", "pair", RawBody("empty", NoParams), NoAuth) }

\* neither PRIVATE_KEY nor PUBLIC_KEY is set
NoKeysSet == [PRIVATE_KEY |-> Unset, PUBLIC_KEY |-> Unset]

\* a data request to an unprotected server, for each setting of PORT
PortRequests == { Request("data", "VIN1", "get_soc", RawBody("empty", NoParams), NoAuth) }

Inputs ==
    { [cfg |-> OpenConfig, keys |-> NoKeysSet, port |-> Unset, reqs |-> [r \in Reqs |-> IF r = 1 THEN q ELSE NoReq]] :
        q \in PlainRequests }
    \cup
    { [cfg |-> c, keys |-> NoKeysSet, port |-> Unset, reqs |-> [r \in Reqs |-> IF r = 1 THEN q ELSE NoReq]] :
        c \in Configs, q \in AuthRequests }
    \cup
    { [cfg |-> OpenConfig, keys |-> NoKeysSet, port |-> Unset, reqs |-> [r \in Reqs |-> q[r]]] :
        q \in ConcurrentRequests }
    \cup
    { [cfg |-> OpenConfig, keys |-> k, port |-> Unset, reqs |-> [r \in Reqs |-> IF r = 1 THEN q ELSE NoReq]] :
        k \in KeyEnvs, q \in KeyRequests }
    \cup
    { [cfg |-> OpenConfig, keys |-> NoKeysSet, port |-> p,
       reqs |-> [r \in Reqs |-> IF r = 1 THEN q ELSE NoReq]] :
        p \in PortEnvs, q \in PortRequests }

Init ==
    \E in \in Inputs :
        /\ main = "serveHTTP"
        /\ environ = [Username |-> in.cfg.Username, Password |-> in.cfg.Password,
                      PORT |-> in.port,
                      PRIVATE_KEY |-> in.keys.PRIVATE_KEY, PUBLIC_KEY |-> in.keys.PUBLIC_KEY]
        /\ configOnce = "idle"
        /\ reads = 0
        /\ cfg = NilConfig
        /\ req = in.reqs
        /\ pc = [r \in Reqs |-> IF in.reqs[r] = NoReq THEN "off" ELSE "validateAuth"]
        /\ call = [r \in Reqs |-> "none"]
        /\ body = [r \in Reqs |-> [isNil |-> TRUE, kv |-> NoParams]]
        /\ conns = [r \in Reqs |-> <<>>]
        /\ tries = [r \in Reqs |-> 0]
        /\ err = [r \in Reqs |-> Nil]
        /\ val = [r \in Reqs |-> NoValue]
        /\ state = [r \in Reqs |-> NoState]
        /\ ret = [r \in Reqs |-> [val |-> NoValue, err |-> Nil]]
        /\ resp = [r \in Reqs |-> NoResp]
        /\ log = [r \in Reqs |-> <<>>]
        /\ todo = [r \in Reqs |-> <<>>]

----------------------------------------------------------------------------
(* validateAuth and the two endpoint handlers up to their first call.      *)

AuthPasses_bothEmpty(c, a) ==
    \/ c.Username = "" /\ c.Password = ""
    \/ a.ok /\ a.username = c.Username /\ a.password = c.Password

AuthPasses_usernameOnly(c, a) ==
    \/ c.Username = "" \/ c.Password = ""
    \/ a.ok /\ a.username = c.Username

\* validateAuth's decision: pass the request on to the handler
AuthPasses(c, a) ==
    \/ c.Username = "" \/ c.Password = ""
    \/ a.ok /\ a.username = c.Username /\ a.password = c.Password

\* serveHTTP up to the start of the listening goroutine: the routes, and
\* the server's address from GetConfig().Port
ServeHTTP ==
    /\ main = "serveHTTP"
    /\ \E lib \in LibAnswers :
          /\ GetConfigWith(lib)
          /\ main' = IF Panics(lib) THEN "panic" ELSE "listen"
    /\ UNCHANGED <<environ, todo, state, ret, req, pc, val, call, body, conns, tries, err, resp, log>>

\* the ports a TCP listener can be bound to
ValidPort(port) == port \in 0..65535

\* the states of the process in which handlers run: the server is
\* listening, or it has been told to shut down and has not yet exited
Serving == {"ListenAndServe", "Shutdown"}

\* the goroutine's httpServer.ListenAndServe(): the listener is bound and
\* the server serves, or binding fails (always when the port is not a
\* port), ListenAndServe returns the error and log.Fatal ends the process
ListenAndServe ==
    /\ main = "listen"
    /\ \E bound \in BOOLEAN :
          /\ bound => ValidPort(cfg.Port)
          /\ main' = IF bound THEN "ListenAndServe" ELSE "fatal"
    /\ UNCHANGED <<environ, todo, configOnce, reads, cfg, state, ret, req, pc, val, call, body, conns, tries, err, resp, log>>

\* os.Interrupt arrives: serveHTTP calls httpServer.Shutdown(ctx), which
\* closes the listener and waits for the requests in flight; a server not
\* yet listening will not serve
Shutdown ==
    /\ main \in {"listen", "ListenAndServe"}
    /\ main' = IF main = "listen" THEN "closed" ELSE "Shutdown"
    /\ UNCHANGED <<environ, todo, configOnce, reads, cfg, state, ret, req, pc, val, call, body, conns, tries, err, resp, log>>

\* after Shutdown was called ListenAndServe returns ErrServerClosed, which
\* is not nil: log.Fatal(err) ends the process, whatever is in flight
Fatal ==
    /\ main \in {"closed", "Shutdown"}
    /\ main' = "fatal"
    /\ UNCHANGED <<environ, todo, configOnce, reads, cfg, state, ret, req, pc, val, call, body, conns, tries, err, resp, log>>

\* httpServer.Shutdown(ctx) returns, when no request is in flight or when
\* its 15 seconds have passed, and with it serveHTTP and main
ShutdownReturns ==
    /\ main \in {"closed", "Shutdown"}
    /\ main' = "returned"
    /\ UNCHANGED <<environ, todo, configOnce, reads, cfg, state, ret, req, pc, val, call, body, conns, tries, err, resp, log>>

ValidateAuth(r) ==
    /\ pc[r] = "validateAuth"
    /\ GetConfig
    /\ IF AuthPasses(cfg', req[r].auth)
       THEN /\ pc' = [pc EXCEPT ![r] = "handler"]
            /\ resp' = resp
       ELSE /\ pc' = [pc EXCEPT ![r] = "done"]
            /\ resp' = [resp EXCEPT ![r] = HttpError(401)]
    /\ UNCHANGED <<main, environ, todo, state, ret, req, val, call, body, conns, tries, err, log>>

\* handleExecCommand up to the first execCommand call
HandleExecCommand(r) ==
    /\ pc[r] = "handler"
    /\ req[r].endpoint = "command"
    /\ LET d == Decode(req[r].raw)
       IN  IF req[r].vin = "" \/ BodyRejected(d)
           THEN /\ resp' = [resp EXCEPT ![r] = HttpError(400)]
                /\ pc' = [pc EXCEPT ![r] = "done"]
                /\ UNCHANGED <<body, call>>
           ELSE /\ body' = [body EXCEPT ![r] = [isNil |-> d.isNil, kv |-> d.kv]]
                /\ call' = [call EXCEPT ![r] =
                                IF needWakeUp(req[r].command) THEN "wake" ELSE "main"]
                /\ pc' = [pc EXCEPT ![r] = "execCommand"]
                /\ resp' = resp
    /\ UNCHANGED <<main, environ, todo, configOnce, reads, state, ret, cfg, req, val, conns, tries, err, log>>

HandleGetDataCommand_wakes(r) ==
    /\ pc[r] = "handler"
    /\ req[r].endpoint = "data"
    /\ IF req[r].vin = ""
       THEN /\ resp' = [resp EXCEPT ![r] = HttpError(400)]
            /\ pc' = [pc EXCEPT ![r] = "done"]
            /\ call' = call
       ELSE /\ call' = [call EXCEPT ![r] = "wake"]
            /\ pc' = [pc EXCEPT ![r] = "execCommand"]
            /\ resp' = resp
    /\ UNCHANGED <<main, environ, todo, configOnce, reads, state, ret, cfg, req, val, body, conns, tries, err, log>>

\* handleGetDataCommand up to the execDataCommand call
HandleGetDataCommand(r) ==
    /\ pc[r] = "handler"
    /\ req[r].endpoint = "data"
    /\ IF req[r].vin = ""
       THEN /\ resp' = [resp EXCEPT ![r] = HttpError(400)]
            /\ pc' = [pc EXCEPT ![r] = "done"]
            /\ call' = call
       ELSE /\ call' = [call EXCEPT ![r] = "data"]
            /\ pc' = [pc EXCEPT ![r] = "execCommand"]
            /\ resp' = resp
    /\ UNCHANGED <<main, environ, todo, configOnce, reads, state, ret, cfg, req, val, body, conns, tries, err, log>>

\* execCommand / execDataCommand: the registry lookup
Registry(r) == IF call[r] = "data" THEN dataCommands ELSE commands

ExecCommand(r) ==
    /\ pc[r] = "execCommand"
    /\ IF CurCommand(r) \in DOMAIN Registry(r)
       THEN /\ pc' = [pc EXCEPT ![r] = "NewConnection"]
            /\ err' = [err EXCEPT ![r] = Nil]
       ELSE /\ pc' = [pc EXCEPT ![r] = "return"]
            /\ err' = [err EXCEPT ![r] = errCmdNotFound]
    /\ UNCHANGED <<main, environ, todo, configOnce, reads, state, ret, cfg, req, val, call, body, conns, tries, resp, log>>

----------------------------------------------------------------------------
(* prepareConnection, one step per library call.                           *)

PrepareFailed(text, e) ==
    Errorf("could not prepare vehicle connection:", Errorf(text, e))

\* where execCommand / execDataCommand goes once the connection is prepared
AfterPrepare(r) == IF call[r] = "data" THEN "cmdFunc" ELSE "retryCommand"

\* the error a failing library call of the connection setup returns
SetupErrors == { [id |-> "new", msg |-> <<"context deadline exceeded">>] }

NewConnection_exclusive(r) ==
    /\ pc[r] = "NewConnection"
    /\ \A q \in Reqs \ {r} : \A k \in DOMAIN conns[q] :
          conns[q][k].vin = req[r].vin => conns[q][k].closes > 0
    /\ \E e \in {Nil} \cup SetupErrors :
        IF e = Nil
        THEN /\ conns' = [conns EXCEPT ![r] =
                    Append(@, NewConn(CurCommand(r), req[r].vin, ConnTimeout(CurCommand(r))))]
             /\ log' = [log EXCEPT ![r] = @ \o Stamp(call[r], <<Ev("NewConnection", Cur(r) + 1, 0, TRUE)>>)]
             /\ pc' = [pc EXCEPT ![r] = "NewVehicle"]
             /\ err' = err
        ELSE /\ log' = [log EXCEPT ![r] = @ \o Stamp(call[r], <<Ev("NewConnection", 0, 0, FALSE)>>)]
             /\ err' = [err EXCEPT ![r] =
                    PrepareFailed("failed to create BLE connection to vehicle:", e)]
             /\ pc' = [pc EXCEPT ![r] = "return"]
             /\ conns' = conns
    /\ UNCHANGED <<main, environ, todo, configOnce, reads, state, ret, cfg, req, val, call, body, tries, resp>>

NewConnection(r) ==
    /\ pc[r] = "NewConnection"
    /\ \E e \in {Nil} \cup SetupErrors :
        IF e = Nil
        THEN /\ conns' = [conns EXCEPT ![r] =
                    Append(@, NewConn(CurCommand(r), req[r].vin, ConnTimeout(CurCommand(r))))]
             /\ log' = [log EXCEPT ![r] = @ \o Stamp(call[r], <<Ev("NewConnection", Cur(r) + 1, 0, TRUE)>>)]
             /\ pc' = [pc EXCEPT ![r] = "NewVehicle"]
             /\ err' = err
        ELSE /\ log' = [log EXCEPT ![r] = @ \o Stamp(call[r], <<Ev("NewConnection", 0, 0, FALSE)>>)]
             /\ err' = [err EXCEPT ![r] =
                    PrepareFailed("failed to create BLE connection to vehicle:", e)]
             /\ pc' = [pc EXCEPT ![r] = "return"]
             /\ conns' = conns
    /\ UNCHANGED <<main, environ, todo, configOnce, reads, state, ret, cfg, req, val, call, body, tries, resp>>

NewVehicle(r) ==
    /\ pc[r] = "NewVehicle"
    /\ \E e \in {Nil} \cup SetupErrors :
        IF e = Nil
        THEN /\ conns' = [conns EXCEPT ![r][Cur(r)].vehicle = TRUE]
             /\ log' = [log EXCEPT ![r] = @ \o Stamp(call[r], <<Ev("NewVehicle", Cur(r), 0, TRUE)>>)]
             /\ pc' = [pc EXCEPT ![r] = "Connect"]
             /\ err' = err
             /\ todo' = todo
        ELSE /\ conns' = conns
             /\ log' = [log EXCEPT ![r] = @ \o Stamp(call[r], <<Ev("NewVehicle", Cur(r), 0, FALSE)>>)]
             /\ todo' = [todo EXCEPT ![r] = NewVehicleFailTeardown]
             /\ err' = [err EXCEPT ![r] = PrepareFailed("failed to create vehicle:", e)]
             /\ pc' = [pc EXCEPT ![r] = "teardown"]
    /\ GetConfig
    /\ UNCHANGED <<main, environ, state, ret, req, val, call, body, tries, resp>>

Connect(r) ==
    /\ pc[r] = "Connect"
    /\ \E e \in {Nil} \cup SetupErrors :
        IF e = Nil
        THEN /\ conns' = [conns EXCEPT ![r][Cur(r)].connected = TRUE]
             /\ log' = [log EXCEPT ![r] = @ \o Stamp(call[r], <<Ev("Connect", Cur(r), 0, TRUE)>>)]
             /\ pc' = [pc EXCEPT ![r] =
                    IF NeedsSession(CurCommand(r)) THEN "StartSession" ELSE AfterPrepare(r)]
             /\ tries' = [tries EXCEPT ![r] = 1]
             /\ err' = err
             /\ todo' = [todo EXCEPT ![r] =
                    IF NeedsSession(CurCommand(r)) THEN <<>> ELSE DeferredTeardown]
        ELSE /\ conns' = conns
             /\ log' = [log EXCEPT ![r] = @ \o Stamp(call[r], <<Ev("Connect", Cur(r), 0, FALSE)>>)]
             /\ todo' = [todo EXCEPT ![r] = ConnectFailTeardown]
             /\ err' = [err EXCEPT ![r] = PrepareFailed("failed to connect to vehicle:", e)]
             /\ pc' = [pc EXCEPT ![r] = "teardown"]
             /\ tries' = tries
    /\ UNCHANGED <<main, environ, configOnce, reads, state, ret, cfg, req, val, call, body, resp>>

StartSession_proceeds(r) ==
    /\ pc[r] = "StartSession"
    /\ \E e \in {Nil} \cup SetupErrors :
        /\ IF e = Nil
           THEN conns' = [conns EXCEPT ![r][Cur(r)].session = SessionDomains(CurCommand(r))]
           ELSE conns' = conns
        /\ log' = [log EXCEPT ![r] =
              @ \o Stamp(call[r], <<Ev("StartSession", Cur(r), SessionDomains(CurCommand(r)), e = Nil)>>)]
        /\ pc' = [pc EXCEPT ![r] = AfterPrepare(r)]
        /\ err' = err
        /\ todo' = [todo EXCEPT ![r] = DeferredTeardown]
    /\ UNCHANGED <<main, environ, configOnce, reads, state, ret, cfg, req, val, call, body, tries, resp>>

StartSession(r) ==
    /\ pc[r] = "StartSession"
    /\ \E e \in {Nil} \cup SetupErrors :
        IF e = Nil
        THEN /\ conns' = [conns EXCEPT ![r][Cur(r)].session = SessionDomains(CurCommand(r))]
             /\ log' = [log EXCEPT ![r] =
                    @ \o Stamp(call[r], <<Ev("StartSession", Cur(r), SessionDomains(CurCommand(r)), TRUE)>>)]
             /\ pc' = [pc EXCEPT ![r] = AfterPrepare(r)]
             /\ err' = err
             /\ todo' = [todo EXCEPT ![r] = DeferredTeardown]
        ELSE /\ conns' = conns
             /\ log' = [log EXCEPT ![r] =
                    @ \o Stamp(call[r], <<Ev("StartSession", Cur(r), SessionDomains(CurCommand(r)), FALSE)>>)]
             /\ todo' = [todo EXCEPT ![r] = SessionFailTeardown]
             /\ err' = [err EXCEPT ![r] =
                    PrepareFailed("failed to perform handshake with vehicle:", e)]
             /\ pc' = [pc EXCEPT ![r] = "teardown"]
    /\ UNCHANGED <<main, environ, configOnce, reads, state, ret, cfg, req, val, call, body, tries, resp>>

----------------------------------------------------------------------------
(* retryCommand, the data handler call, and the deferred teardown.         *)

\* the remote commands a handler sent, as log entries
SentLog(k, calls, res) ==
    [i \in 1..Len(calls) |-> EvRemote(calls[i].op, k, calls[i].arg, res)]

\* execCommand's fmt.Errorf("retrying command %s failed: %s", command, err)
RetryFailed(command, e) ==
    [id |-> "new", msg |-> <<"retrying command", command, "failed:">> \o e.msg]

RetryCommand_lastError(r) ==
    /\ pc[r] = "retryCommand"
    /\ \E res \in RemoteResults :
        LET fn == commands[CurCommand(r)]
            h  == CallCmdFunc(fn, body[r].kv, res)
        IN  /\ res \in AnswersFor(h.calls)
            /\ log' = [log EXCEPT ![r] =
                    @ \o Stamp(call[r], <<Ev(fn, Cur(r), tries[r], h.err = Nil)>>
                        \o SentLog(Cur(r), h.calls, res))]
            /\ IF h.err # Nil
               THEN /\ tries' = [tries EXCEPT ![r] = @ + 1]
                    /\ IF tries[r] + 1 <= MaxTries
                       THEN /\ pc' = pc
                            /\ err' = err
                       ELSE /\ pc' = [pc EXCEPT ![r] = "deferred"]
                            /\ err' = [err EXCEPT ![r] = RetryFailed(CurCommand(r), h.err)]
               ELSE /\ tries' = tries
                    /\ pc' = [pc EXCEPT ![r] = "deferred"]
                    /\ err' = [err EXCEPT ![r] = Nil]
    /\ GetConfigIf(CurCommand(r) = "pair")
    /\ UNCHANGED <<main, environ, todo, state, ret, req, call, body, conns, val, resp>>

RetryCommand_rehandshake(r) ==
    /\ pc[r] = "retryCommand"
    /\ \E res \in RemoteResults :
        LET fn == commands[CurCommand(r)]
            h  == CallCmdFunc(fn, body[r].kv, res)
            again == h.err # Nil /\ tries[r] + 1 <= MaxTries
        IN  /\ res \in AnswersFor(h.calls)
            /\ log' = [log EXCEPT ![r] =
                    @ \o Stamp(call[r], <<Ev(fn, Cur(r), tries[r], h.err = Nil)>>
                        \o SentLog(Cur(r), h.calls, res)
                        \o (IF again THEN <<Ev("StartSession", Cur(r), 0, TRUE)>> ELSE <<>>))]
            /\ IF h.err # Nil
               THEN /\ tries' = [tries EXCEPT ![r] = @ + 1]
                    /\ IF again
                       THEN /\ pc' = pc
                            /\ err' = err
                       ELSE /\ pc' = [pc EXCEPT ![r] = "deferred"]
                            /\ err' = [err EXCEPT ![r] =
                                   RetryFailed(CurCommand(r), ErrorsNew("too many retries"))]
               ELSE /\ tries' = tries
                    /\ pc' = [pc EXCEPT ![r] = "deferred"]
                    /\ err' = [err EXCEPT ![r] = Nil]
    /\ GetConfigIf(CurCommand(r) = "pair")
    /\ UNCHANGED <<main, environ, todo, state, ret, req, call, body, conns, val, resp>>

\* retryCommand: one step is one pass of the loop (tries is 1 when the
\* connection is prepared, which is when retryCommand is entered)
RetryCommand(r) ==
    /\ pc[r] = "retryCommand"
    /\ \E res \in RemoteResults :
        LET fn == commands[CurCommand(r)]
            h  == CallCmdFunc(fn, body[r].kv, res)
        IN  /\ res \in AnswersFor(h.calls)
            /\ log' = [log EXCEPT ![r] =
                    @ \o Stamp(call[r], <<Ev(fn, Cur(r), tries[r], h.err = Nil)>>
                        \o SentLog(Cur(r), h.calls, res))]
            /\ IF h.err # Nil
               THEN /\ tries' = [tries EXCEPT ![r] = @ + 1]
                    /\ IF tries[r] + 1 <= MaxTries
                       THEN /\ pc' = pc
                            /\ err' = err
                       ELSE /\ pc' = [pc EXCEPT ![r] = "deferred"]
                            /\ err' = [err EXCEPT ![r] =
                                   RetryFailed(CurCommand(r), ErrorsNew("too many retries"))]
               ELSE /\ tries' = tries
                    /\ pc' = [pc EXCEPT ![r] = "deferred"]
                    /\ err' = [err EXCEPT ![r] = Nil]
    /\ GetConfigIf(CurCommand(r) = "pair")
    /\ UNCHANGED <<main, environ, todo, state, ret, req, call, body, conns, val, resp>>

ExecDataResult_keepsValue(h) ==
    [val |-> h.val,
     err |-> IF h.err # Nil THEN Errorf("could not get data:", h.err) ELSE Nil]

\* what execDataCommand returns after cmdFunc(car) returned h
ExecDataResult(h) ==
    IF h.err # Nil
    THEN [val |-> NoValue, err |-> Errorf("could not get data:", h.err)]
    ELSE [val |-> h.val, err |-> Nil]

\* execDataCommand: the one call of the data handler
DataCommand(r) ==
    /\ pc[r] = "cmdFunc"
    /\ \E data \in StateResults :
        LET fn == dataCommands[CurCommand(r)]
            h  == CallDataFunc(fn, data)
        IN  /\ log' = [log EXCEPT ![r] =
                    @ \o Stamp(call[r], <<Ev(fn, Cur(r), 1, h.err = Nil)>>
                        \o <<EvRemote("GetState", Cur(r), 0, data.err)>>)]
            /\ state' = [state EXCEPT ![r] = data]
            /\ ret' = [ret EXCEPT ![r] = h]
            /\ err' = [err EXCEPT ![r] = ExecDataResult(h).err]
            /\ val' = [val EXCEPT ![r] = ExecDataResult(h).val]
    /\ pc' = [pc EXCEPT ![r] = "deferred"]
    /\ UNCHANGED <<main, environ, todo, configOnce, reads, cfg, req, call, body, conns, tries, resp>>

\* one teardown call on the connection the call holds: the first of the
\* calls still to make; the call returns after the last one
TeardownCall(r, c) ==
    /\ todo[r] # <<>>
    /\ conns' = c
    /\ log' = [log EXCEPT ![r] = @ \o Stamp(call[r], TeardownLog(Cur(r), <<Head(todo[r])>>))]
    /\ todo' = [todo EXCEPT ![r] = Tail(@)]
    /\ pc' = [pc EXCEPT ![r] = IF Tail(todo[r]) = <<>> THEN "return" ELSE @]
    /\ UNCHANGED <<main, environ, configOnce, reads, state, ret, cfg, req, call, body, tries, err, val, resp>>

\* prepareConnection's exit paths after a failed NewVehicle, Connect or
\* StartSession: conn.Close(), or car.Disconnect() and then conn.Close(),
\* one call a step
Teardown(r) ==
    /\ pc[r] = "teardown"
    /\ TeardownCall(r, [conns EXCEPT ![r][Cur(r)] = TeardownConn(@, <<Head(todo[r])>>)])

Deferred_sharedHandle(r) ==
    /\ pc[r] = "deferred"
    /\ TeardownCall(r, [q \in Reqs |->
            IF Len(conns[q]) > 0 /\ (q = r \/ conns[q][Len(conns[q])].closes = 0)
            THEN [conns[q] EXCEPT ![Len(conns[q])] = TeardownConn(@, <<Head(todo[r])>>)]
            ELSE conns[q]])

\* the deferred car.Disconnect() and conn.Close() of execCommand /
\* execDataCommand, one call a step
Deferred(r) ==
    /\ pc[r] = "deferred"
    /\ TeardownCall(r, [conns EXCEPT ![r][Cur(r)] = TeardownConn(@, <<Head(todo[r])>>)])

----------------------------------------------------------------------------
(* Back in the endpoint handlers.                                          *)

\* the status handleExecCommand / handleGetDataCommand answers an error with
ErrorStatus(e) == IF IsCmdNotFound(e) THEN 404 ELSE 500

ReturnWakeUp_ignoreError(r) ==
    /\ pc[r] = "return"
    /\ call[r] = "wake"
    /\ pc' = [pc EXCEPT ![r] = "Sleep"]
    /\ UNCHANGED <<main, environ, todo, configOnce, reads, state, ret, cfg, req, call, body, conns, tries, err, val, resp, log>>

\* handleExecCommand after the wake_up call returned
ReturnWakeUp(r) ==
    /\ pc[r] = "return"
    /\ call[r] = "wake"
    /\ IF err[r] # Nil
       THEN /\ resp' = [resp EXCEPT ![r] = HttpError(500)]
            /\ pc' = [pc EXCEPT ![r] = "done"]
       ELSE /\ resp' = resp
            /\ pc' = [pc EXCEPT ![r] = "Sleep"]
    /\ UNCHANGED <<main, environ, todo, configOnce, reads, state, ret, cfg, req, call, body, conns, tries, err, val, log>>

\* time.Sleep(5 * time.Second), then on to the command itself
Sleep(r) ==
    /\ pc[r] = "Sleep"
    /\ log' = [log EXCEPT ![r] = @ \o Stamp("handler", <<Ev("Sleep", 0, SettleDelay, TRUE)>>)]
    /\ call' = [call EXCEPT ![r] = "main"]
    /\ pc' = [pc EXCEPT ![r] = "execCommand"]
    /\ UNCHANGED <<main, environ, todo, configOnce, reads, state, ret, cfg, req, body, conns, tries, err, val, resp>>

\* handleExecCommand after the command's execCommand call returned
ReturnCommand(r) ==
    /\ pc[r] = "return"
    /\ call[r] = "main"
    /\ resp' = [resp EXCEPT ![r] =
            IF err[r] # Nil THEN HttpError(ErrorStatus(err[r])) ELSE SendJSON(JBool(TRUE))]
    /\ pc' = [pc EXCEPT ![r] = "done"]
    /\ UNCHANGED <<main, environ, todo, configOnce, reads, state, ret, cfg, req, call, body, conns, tries, err, val, log>>

\* handleGetDataCommand after execDataCommand returned
ReturnData(r) ==
    /\ pc[r] = "return"
    /\ call[r] = "data"
    /\ resp' = [resp EXCEPT ![r] =
            IF err[r] # Nil THEN HttpError(ErrorStatus(err[r])) ELSE SendJSON(val[r])]
    /\ pc' = [pc EXCEPT ![r] = "done"]
    /\ UNCHANGED <<main, environ, todo, configOnce, reads, state, ret, cfg, req, call, body, conns, tries, err, val, log>>

\* one step of the goroutine that serves request r
Handle(r) ==
    /\ main \in Serving
    /\ \/ ValidateAuth(r)
       \/ HandleExecCommand(r)
       \/ HandleGetDataCommand(r)
       \/ ExecCommand(r)
       \/ NewConnection(r)
       \/ NewVehicle(r)
       \/ Connect(r)
       \/ StartSession(r)
       \/ Teardown(r)
       \/ RetryCommand(r)
       \/ DataCommand(r)
       \/ Deferred(r)
       \/ ReturnWakeUp(r)
       \/ Sleep(r)
       \/ ReturnCommand(r)
       \/ ReturnData(r)

Next ==
    \/ ServeHTTP
    \/ ListenAndServe
    \/ Shutdown
    \/ Fatal
    \/ ShutdownReturns
    \/ \E r \in Reqs : Handle(r)

Spec == Init /\ [][Next]_vars

\* every goroutine that can take a step takes one in the end: the main
\* goroutine, the listening goroutine and each request's goroutine are
\* scheduled, and every library call returns; whether and when os.Interrupt
\* arrives is left to the environment
LiveSpec ==
    /\ Init
    /\ [][Next]_vars
    /\ WF_vars(ServeHTTP)
    /\ WF_vars(ListenAndServe)
    /\ WF_vars(Fatal)
    /\ \A r \in Reqs : WF_vars(Handle(r))

----------------------------------------------------------------------------
(* Reading the state: connections, calls and attempts.                     *)

\* the functions registered as action handlers
HandlerOps == { commands[c] : c \in DOMAIN commands }

\* the log positions of the handler invocations made on connection k
Attempts(r, k) ==
    { i \in DOMAIN log[r] : log[r][i].op \in HandlerOps /\ log[r][i].conn = k }

\* connection k is held by the execCommand / execDataCommand call in progress
InCall(r, k) ==
    /\ k = Len(conns[r])
    /\ pc[r] \in {"NewVehicle", "Connect", "StartSession", "teardown", "retryCommand", "cmdFunc", "deferred"}

\* connection k is open: opened and not closed
IsOpen(r, k) == conns[r][k].closes = 0

\* position i of the log is a library call of kind op on connection k
IsCall(r, i, op, k) == log[r][i].op = op /\ log[r][i].conn = k

----------------------------------------------------------------------------
\* C1: for every outcome of Connect and of the session handshake, the
\* connection's Close is invoked exactly once over the whole execCommand /
\* execDataCommand call (never twice, and once by the time the call has
\* returned), and Disconnect is invoked only on a handle whose Connect
\* succeeded before.
C1_CloseOnceDisconnectAfterConnect ==
    \A r \in Reqs : \A k \in DOMAIN conns[r] :
        /\ Cardinality({ i \in DOMAIN log[r] : IsCall(r, i, "Close", k) }) = conns[r][k].closes
        /\ conns[r][k].closes <= 1
        /\ ~InCall(r, k) => conns[r][k].closes = 1
        /\ \A i \in DOMAIN log[r] :
              IsCall(r, i, "Disconnect", k) =>
                  \E j \in 1..(i - 1) : IsCall(r, j, "Connect", k) /\ log[r][j].ok

\* a call that returned after Connect succeeded and the handshake failed:
\* one Disconnect, one Close
C1_Witness ==
    \E r \in Reqs : \E k \in DOMAIN conns[r] :
        /\ ~InCall(r, k)
        /\ conns[r][k].connected
        /\ \E i \in DOMAIN log[r] : IsCall(r, i, "StartSession", k) /\ ~log[r][i].ok
        /\ conns[r][k].closes = 1
        /\ conns[r][k].disconnects = 1

\* C2: within one request at most one connection is open at any time, no
\* connection is open once its call has returned, and the wake_up
\* connection is closed before the settle delay and before the connection
\* of the command itself is opened.
C2_OneOpenConnection ==
    \A r \in Reqs :
        /\ Cardinality({ k \in DOMAIN conns[r] : IsOpen(r, k) }) <= 1
        /\ \A k \in DOMAIN conns[r] : IsOpen(r, k) => InCall(r, k)
        /\ \A i \in DOMAIN log[r] :
              log[r][i].op \in {"Sleep", "NewConnection"} =>
                  \A j \in 1..(i - 1) :
                      (log[r][j].op = "NewConnection" /\ log[r][j].ok) =>
                          \E c \in (j + 1)..(i - 1) : IsCall(r, c, "Close", log[r][j].conn)

\* the command's connection is open after the wake_up connection was
\* closed and the settle delay has passed
C2_Witness ==
    \E r \in Reqs :
        /\ Len(conns[r]) = 2
        /\ ~IsOpen(r, 1)
        /\ IsOpen(r, 2)
        /\ \E i \in DOMAIN log[r] : log[r][i].op = "Sleep"

\* C3: for an action command other than wake_up and pair, whatever the
\* command's call does (open its connection, invoke its handler) happens
\* after the settle delay, which follows a successful wake_up attempt of
\* the retry loop on the wake_up connection; the successful attempt is the
\* last of at most MaxTries wake_up attempts.
C3_WakeBeforeCommand ==
    \A r \in Reqs :
        (/\ req[r] # NoReq
         /\ req[r].endpoint = "command"
         /\ req[r].command \in DOMAIN commands \ {"wake_up", "pair"})
        =>
        \A i \in DOMAIN log[r] :
            log[r][i].call = "main" =>
                \E s \in 1..(i - 1) : \E w \in 1..(s - 1) :
                    /\ log[r][s].op = "Sleep"
                    /\ log[r][s].arg = SettleDelay
                    /\ log[r][w].op = "cmdWakeUp"
                    /\ log[r][w].call = "wake"
                    /\ log[r][w].ok
                    /\ log[r][w + 1].op = "Wakeup" /\ log[r][w + 1].ok
                    /\ log[r][w].arg <= MaxTries
                    /\ \A x \in (w + 1)..(s - 1) : log[r][x].op # "cmdWakeUp"

\* the handler of set_charging_amps has been invoked, after a wake-up that
\* succeeded at its second attempt
C3_Witness ==
    \E r \in Reqs :
        /\ req[r].command = "set_charging_amps"
        /\ \E i \in DOMAIN log[r] : log[r][i].op = "cmdSetChargingAmps"
        /\ \E w \in DOMAIN log[r] :
              log[r][w].op = "cmdWakeUp" /\ log[r][w].ok /\ log[r][w].arg = 2

\* the wake_up sub-command of a request has failed
WakeFailed(r) ==
    \/ \E i \in DOMAIN log[r] :
          /\ log[r][i].call = "wake"
          /\ log[r][i].op \in {"NewConnection", "NewVehicle", "Connect", "StartSession"}
          /\ ~log[r][i].ok
    \/ Cardinality({ i \in DOMAIN log[r] :
          log[r][i].call = "wake" /\ log[r][i].op = "cmdWakeUp" /\ ~log[r][i].ok }) = MaxTries

\* C4: once the wake_up sub-command has failed (connection setup failed,
\* or MaxTries wake attempts failed), nothing but its own teardown follows:
\* no settle delay, no connection and no handler invocation for the
\* original command, and the request ends with status 500.
C4_WakeFailureAborts ==
    \A r \in Reqs :
        WakeFailed(r) =>
            /\ \A i \in DOMAIN log[r] : log[r][i].call = "wake" /\ log[r][i].op # "Sleep"
            /\ Len(conns[r]) <= 1
            /\ pc[r] \in {"teardown", "deferred", "return", "done"}
            /\ call[r] = "wake"
            /\ pc[r] = "done" => resp[r] = HttpError(500)

\* a charge_start request answered 500 after three failed wake attempts
C4_Witness ==
    \E r \in Reqs :
        /\ req[r].command = "charge_start"
        /\ pc[r] = "done"
        /\ resp[r].status = 500
        /\ Cardinality(Attempts(r, 1)) = MaxTries
        /\ \A i \in Attempts(r, 1) : ~log[r][i].ok

\* C5: retryCommand invokes the handler at most 3 times and stops at the
\* first success: on every connection the attempts are numbered 1, 2, ...,
\* only the last one can have succeeded; when the loop is over either the
\* last attempt succeeded and nil is returned, or all of exactly 3 attempts
\* failed and the error is "too many retries"; while the loop runs no
\* attempt has succeeded and fewer than 3 were made.
C5_RetryStopsAtFirstSuccess ==
    \A r \in Reqs : \A k \in DOMAIN conns[r] :
        LET A == Attempts(r, k)
            n == Cardinality(A)
            succeeded == \E i \in A : log[r][i].ok
        IN  /\ n <= 3
            /\ \A i \in A : log[r][i].arg = Cardinality({ j \in A : j <= i })
            /\ \A i \in A : log[r][i].ok => \A j \in A : j <= i
            /\ (k = Len(conns[r]) /\ pc[r] = "retryCommand") => (~succeeded /\ n < 3)
            /\ (k = Len(conns[r]) /\ pc[r] = "deferred" /\ call[r] # "data") =>
                  \/ succeeded /\ err[r] = Nil
                  \/ /\ ~succeeded
                     /\ n = 3
                     /\ StringsContains(err[r].msg, <<"too many retries">>)

\* fail, fail, success: three invocations and success reported
C5_Witness ==
    \E r \in Reqs : \E k \in DOMAIN conns[r] :
        /\ pc[r] = "deferred"
        /\ k = Len(conns[r])
        /\ Cardinality(Attempts(r, k)) = 3
        /\ \E i \in Attempts(r, k) : log[r][i].ok
        /\ err[r] = Nil

\* C6: a request that reached the dispatcher with a command name that is in
\* neither registry is answered 404, whatever else happened.
C6_UnknownCommandIs404 ==
    \A r \in Reqs :
        (/\ pc[r] = "done"
         /\ call[r] # "none"
         /\ req[r].command \notin (DOMAIN commands \cup DOMAIN dataCommands))
        => resp[r].status = 404

\* the handler decided to wake the vehicle before the command
WakeUpTaken(r) == call[r] = "wake" \/ \E i \in DOMAIN log[r] : log[r][i].call = "wake"

\* C7: needWakeUp is false for wake_up, pair and the data-read commands and
\* true for every other action command: a request on the command endpoint
\* starts with the wake_up sub-command exactly for the other action
\* commands.
C7_NeedWakeUpDecision ==
    \A r \in Reqs :
        (/\ req[r].endpoint = "command"
         /\ call[r] # "none"
         /\ req[r].command \in (DOMAIN commands \cup DOMAIN dataCommands))
        =>
        (WakeUpTaken(r) <=>
            req[r].command \notin ({"wake_up", "pair"} \cup DOMAIN dataCommands))

----------------------------------------------------------------------------
\* the attempt (handler invocation) that sent the remote command at i
AttemptOf(r, i) == log[r][i - 1]

\* the handler invocations on the connection of position i that follow it
LaterAttempts(r, i) == { j \in Attempts(r, log[r][i].conn) : j > i }

\* a ChargeStart answered with one of the conflicts that mean "already on"
StartConflict(e) ==
    /\ e.op = "ChargeStart"
    /\ ~e.ok
    /\ \/ StringsContains(e.msg, <<"already_started">>)
       \/ StringsContains(e.msg, <<"is_charging">>)

\* C8: when ChargeStart fails with a message containing already_started or
\* is_charging, the handler invocation that sent it reports success; it is
\* the last attempt on its connection (no retry), so when it is the first
\* attempt there is exactly one invocation; and the request is answered
\* 200 true.
C8_ChargeStartConflictIsSuccess ==
    \A r \in Reqs : \A i \in DOMAIN log[r] :
        StartConflict(log[r][i]) =>
            /\ AttemptOf(r, i).op \in {"cmdChargeStart", "cmdChargeEnable"}
            /\ AttemptOf(r, i).ok
            /\ LaterAttempts(r, i) = {}
            /\ Cardinality(Attempts(r, log[r][i].conn)) = AttemptOf(r, i).arg
            /\ pc[r] # "retryCommand"
            /\ pc[r] = "done" => resp[r] = SendJSON(JBool(TRUE))

\* a charge_start request answered 200 true after a single handler
\* invocation whose ChargeStart was answered already_started
C8_Witness ==
    \E r \in Reqs : \E i \in DOMAIN log[r] :
        /\ req[r].command = "charge_start"
        /\ pc[r] = "done"
        /\ resp[r].status = 200
        /\ StartConflict(log[r][i])
        /\ StringsContains(log[r][i].msg, <<"already_started">>)
        /\ Cardinality(Attempts(r, log[r][i].conn)) = 1

\* C9: when ChargeStop fails with a message containing not_charging the
\* handler invocation reports success and is the last attempt (the only one
\* when it is the first); with any other ChargeStop error the invocation
\* reports failure and, unless it was the third, another attempt follows
\* or is about to.
C9_ChargeStopConflictIsSuccess ==
    \A r \in Reqs : \A i \in DOMAIN log[r] :
        (log[r][i].op = "ChargeStop" /\ ~log[r][i].ok) =>
            /\ AttemptOf(r, i).op \in {"cmdChargeStop", "cmdChargeEnable"}
            /\ IF StringsContains(log[r][i].msg, <<"not_charging">>)
               THEN /\ AttemptOf(r, i).ok
                    /\ LaterAttempts(r, i) = {}
                    /\ Cardinality(Attempts(r, log[r][i].conn)) = AttemptOf(r, i).arg
                    /\ pc[r] # "retryCommand"
                    /\ pc[r] = "done" => resp[r] = SendJSON(JBool(TRUE))
               ELSE /\ ~AttemptOf(r, i).ok
                    /\ AttemptOf(r, i).arg < 3 =>
                          \/ LaterAttempts(r, i) # {}
                          \/ pc[r] = "retryCommand" /\ log[r][i].conn = Len(conns[r])
                    /\ AttemptOf(r, i).arg = 3 => LaterAttempts(r, i) = {}

\* a charge_stop request answered 200 true: the first ChargeStop timed out
\* and was retried, the second was answered not_charging
C9_Witness ==
    \E r \in Reqs : \E i, j \in DOMAIN log[r] :
        /\ req[r].command = "charge_stop"
        /\ pc[r] = "done"
        /\ resp[r].status = 200
        /\ i < j
        /\ log[r][i].op = "ChargeStop" /\ ~log[r][i].ok
        /\ ~StringsContains(log[r][i].msg, <<"not_charging">>)
        /\ log[r][j].op = "ChargeStop" /\ ~log[r][j].ok
        /\ StringsContains(log[r][j].msg, <<"not_charging">>)
        /\ Cardinality(Attempts(r, log[r][j].conn)) = 2

----------------------------------------------------------------------------
(* The integer a string encodes, by place value: an optional sign, then    *)
(* digits only; the value must lie in the int32 range.                     *)

RECURSIVE Pow10(_)
Pow10(k) == IF k = 0 THEN 1 ELSE 10 * Pow10(k - 1)

RECURSIVE PlaceValue(_)
PlaceValue(d) ==
    IF d = <<>> THEN 0
    ELSE DigitVal[Head(d)] * Pow10(Len(d) - 1) + PlaceValue(Tail(d))

Decimal(s) ==
    LET signed == Len(s) >= 1 /\ s[1] \in {"+", "-"}
        neg    == Len(s) >= 1 /\ s[1] = "-"
        digits == IF signed THEN Tail(s) ELSE s
        d      == StripZeros(digits)
        lim    == IF neg THEN MinDigits ELSE MaxDigits
    IN  IF digits = <<>> \/ \E i \in 1..Len(digits) : ~IsDigit(digits[i])
        THEN [valid |-> FALSE, value |-> 0]
        ELSE IF Len(d) > 10 \/ (Len(d) = 10 /\ DigitsLess(lim, d))
        THEN [valid |-> FALSE, value |-> 0]
        ELSE IF d = MinDigits THEN [valid |-> TRUE, value |-> MinInt32]
        ELSE [valid |-> TRUE, value |-> IF neg THEN -PlaceValue(d) ELSE PlaceValue(d)]

\* the parameter key and the remote command of the two setters
SetterKey(fn) == IF fn = "cmdSetChargingAmps" THEN "charging_amps" ELSE "soc_limit"
SetterRemote(fn) == IF fn = "cmdSetChargingAmps" THEN "SetChargingAmps" ELSE "ChangeChargeLimit"

RemoteOps ==
    {"SendAddKeyRequest", "Wakeup", "SetChargingAmps", "ChangeChargeLimit",
     "ChargeStart", "ChargeStop", "GetState"}

\* C10: every invocation of cmdSetChargingAmps / cmdSetSocLimit whose
\* parameter is a string encoding an integer sends the remote command once
\* with exactly that integer; when the key is missing, is not a string or
\* does not encode an integer the invocation fails and sends nothing.
C10_SetterForwardsParsedInteger ==
    \A r \in Reqs : \A i \in DOMAIN log[r] :
        log[r][i].op \in {"cmdSetChargingAmps", "cmdSetSocLimit"} =>
            LET key  == SetterKey(log[r][i].op)
                m    == body[r].kv
                good == /\ key \in DOMAIN m
                        /\ m[key].t = "string"
                        /\ Decimal(m[key].s).valid
                sent == i < Len(log[r]) /\ log[r][i + 1].op \in RemoteOps
            IN  IF good
                THEN /\ sent
                     /\ log[r][i + 1].op = SetterRemote(log[r][i].op)
                     /\ log[r][i + 1].arg = Decimal(m[key].s).value
                     /\ log[r][i + 1].conn = log[r][i].conn
                     /\ log[r][i].ok = log[r][i + 1].ok
                ELSE ~sent /\ ~log[r][i].ok

\* body {"charging_amps": "16"}: SetChargingAmps(16) has been sent
C10_Witness ==
    \E r \in Reqs : \E i \in DOMAIN log[r] :
        /\ "charging_amps" \in DOMAIN body[r].kv
        /\ body[r].kv["charging_amps"] = JString(<<"1", "6">>)
        /\ log[r][i].op = "SetChargingAmps"
        /\ log[r][i].arg = 16

----------------------------------------------------------------------------
\* the data handler of request r has been invoked and has returned
DataHandlerReturned(r, fn) ==
    /\ req[r] # NoReq
    /\ call[r] = "data"
    /\ \E i \in DOMAIN log[r] : log[r][i].op = fn

\* C11: getChargeState returns "C" when the charging sub-state is Charging,
\* "B" when it is Stopped, NoPower or Complete, "A" for every other
\* sub-state, each without an error, and "A" together with an error when
\* the state read failed.
C11_ChargeStateClassification ==
    \A r \in Reqs :
        DataHandlerReturned(r, "getChargeState") =>
            LET sub == state[r].ChargingState
                failed == \E i \in DOMAIN log[r] : log[r][i].op = "GetState" /\ ~log[r][i].ok
            IN  /\ failed <=> state[r].err # Nil
                /\ IF failed
                   THEN ret[r].val = JString(<<"A">>) /\ ret[r].err # Nil
                   ELSE /\ ret[r].err = Nil
                        /\ sub = "Charging" => ret[r].val = JString(<<"C">>)
                        /\ sub \in {"Stopped", "NoPower", "Complete"} =>
                              ret[r].val = JString(<<"B">>)
                        /\ sub \in {"unset", "Unknown", "Disconnected", "Starting", "Calibrating"} =>
                              ret[r].val = JString(<<"A">>)
                        /\ ret[r].val \in {JString(<<"A">>), JString(<<"B">>), JString(<<"C">>)}

\* get_charge_state has returned "B" for the sub-state Complete
C11_Witness ==
    \E r \in Reqs :
        /\ DataHandlerReturned(r, "getChargeState")
        /\ state[r].err = Nil
        /\ state[r].ChargingState = "Complete"
        /\ ret[r].val = JString(<<"B">>)

----------------------------------------------------------------------------
(* What happened to a request, read off its log.                           *)

SetupOps == {"NewConnection", "NewVehicle", "Connect", "StartSession"}

\* a call of the connection setup failed in the execCommand call c
SetupFailed(r, c) ==
    \E i \in DOMAIN log[r] :
        log[r][i].call = c /\ log[r][i].op \in SetupOps /\ ~log[r][i].ok

\* the retry loop of the execCommand call c ran out of attempts
RetriesExhausted(r, c) ==
    Cardinality({ i \in DOMAIN log[r] :
        log[r][i].call = c /\ log[r][i].op \in HandlerOps /\ ~log[r][i].ok }) = 3

\* the retry loop of the execCommand call c reported success
RetrySucceeded(r, c) ==
    \E i \in DOMAIN log[r] :
        log[r][i].call = c /\ log[r][i].op \in HandlerOps /\ log[r][i].ok

\* the request has no target, or a non-empty body that is no JSON mapping
IsBadRequest(q) == q.vin = "" \/ q.raw.kind \in {"truncated", "array"}

\* C12: a POST command request that passed authentication is answered
\* once: with 200 and the body true exactly when the wake-up (if one was
\* made) succeeded and the command's retry loop reported success, with 400
\* for a bad target or body, with 404 for a name that is no registered
\* action command, and with 500 when a connection setup call failed or a
\* retry loop ran out of attempts, in the wake-up or in the command.
C12_CommandStatus ==
    \A r \in Reqs :
        (req[r].endpoint = "command") =>
            LET failure == \/ SetupFailed(r, "wake") \/ SetupFailed(r, "main")
                           \/ RetriesExhausted(r, "wake") \/ RetriesExhausted(r, "main")
                unknown == req[r].command \notin DOMAIN commands
                status  == resp[r].status
            IN  /\ pc[r] # "done" => resp[r] = NoResp
                /\ (pc[r] = "done" /\ status # 401) =>
                      /\ status \in {200, 400, 404, 500}
                      /\ status = 200 <=>
                            /\ WakeUpTaken(r) => RetrySucceeded(r, "wake")
                            /\ RetrySucceeded(r, "main")
                      /\ status = 200 => resp[r] = SendJSON(JBool(TRUE))
                      /\ status = 400 <=> IsBadRequest(req[r])
                      /\ ~IsBadRequest(req[r]) => (status = 404 <=> unknown)
                      /\ failure => status = 500
                      /\ status = 500 => failure

----------------------------------------------------------------------------
\* the handler of request r is past the target and body checks
Dispatched(r) == req[r] # NoReq /\ call[r] # "none"

\* the log entry after position i is a remote command sent by the handler
\* invoked at i
SentAfter(r, i) == i < Len(log[r]) /\ log[r][i + 1].op \in RemoteOps

\* C13: a POST command request with a target and an exactly empty body is
\* never answered 400; its parameter mapping is nil and has no keys, as the
\* mapping of the body {} has none; it goes on to the wake-up decision and
\* to dispatch, and handlers that need a parameter fail without sending a
\* remote command.
C13_EmptyBodyAccepted ==
    \A r \in Reqs :
        (/\ req[r].endpoint = "command"
         /\ req[r].vin # ""
         /\ req[r].raw.kind = "empty")
        =>
        /\ resp[r].status # 400
        /\ (pc[r] \notin {"validateAuth", "handler"} /\ resp[r].status # 401) =>
              /\ Dispatched(r)
              /\ body[r].isNil
              /\ body[r].kv = Decode(RawBody("object", NoParams)).kv
              /\ DOMAIN body[r].kv = {}
              /\ WakeUpTaken(r) <=> req[r].command \notin {"wake_up", "pair"}
              /\ \A i \in DOMAIN log[r] :
                    log[r][i].op \in {"cmdSetChargingAmps", "cmdSetSocLimit", "cmdChargeEnable"}
                        => ~log[r][i].ok /\ ~SentAfter(r, i)

\* charge_stop with an empty body answered 200 true
C13_Witness ==
    \E r \in Reqs :
        /\ req[r].endpoint = "command"
        /\ req[r].raw.kind = "empty"
        /\ req[r].command = "charge_stop"
        /\ pc[r] = "done"
        /\ resp[r] = SendJSON(JBool(TRUE))

\* C14: a request rejected as a bad request (no target, or a non-empty
\* body that does not decode into a mapping) is answered 400 and has had no
\* effect: no connection opened, no library call made, no wake_up and no
\* handler run; and every such request that passed authentication is
\* rejected this way.
C14_BadRequestNoSideEffect ==
    \A r \in Reqs :
        /\ resp[r].status = 400 =>
              /\ IsBadRequest(req[r])
              /\ conns[r] = <<>>
              /\ log[r] = <<>>
              /\ call[r] = "none"
              /\ pc[r] = "done"
        /\ (req[r] # NoReq /\ IsBadRequest(req[r])) =>
              /\ conns[r] = <<>>
              /\ log[r] = <<>>
              /\ call[r] = "none"
              /\ pc[r] = "done" => resp[r].status \in {400, 401}

\* a POST with a truncated JSON body has been answered 400
C14_Witness ==
    \E r \in Reqs :
        /\ req[r].endpoint = "command"
        /\ req[r].vin # ""
        /\ req[r].raw.kind = "truncated"
        /\ pc[r] = "done"
        /\ resp[r] = HttpError(400)

----------------------------------------------------------------------------
\* the functions registered as data handlers
DataOps == { dataCommands[c] : c \in DOMAIN dataCommands }

\* the log positions of the calls of kind op
Calls(r, op) == { i \in DOMAIN log[r] : log[r][i].op = op }

\* the value a numeric data command answers with, given the state read
DataValue(command, st) ==
    CASE command = "get_soc"           -> JNumber(st.BatteryLevel)
      [] command = "get_soc_limit"     -> JNumber(st.ChargeLimitSoc)
      [] command = "get_battery_range" -> JFloat(st.BatteryRange)
      [] OTHER                         -> NoValue

\* the data request r, for a registered data command with a target, made
\* its calls as a data command does: at most one connection and one
\* invocation of its handler with one GetState, all in the data call, no
\* action handler, no wake-up, no settle delay; and when it has been
\* answered, one connection attempt was made and the connection is closed
DataCommandCalls(r) ==
    LET fn      == dataCommands[req[r].command]
        invoked == Calls(r, fn)
    IN  /\ Len(conns[r]) <= 1
        /\ Cardinality(Calls(r, "NewConnection")) <= 1
        /\ Cardinality(invoked) <= 1
        /\ Cardinality(Calls(r, "GetState")) = Cardinality(invoked)
        /\ \A i \in DOMAIN log[r] :
              /\ log[r][i].call = "data"
              /\ log[r][i].op \notin HandlerOps \cup {"Sleep", "Wakeup"}
              /\ log[r][i].op \in DataOps => log[r][i].op = fn
        /\ (pc[r] = "done" /\ resp[r].status # 401) =>
              /\ Cardinality(Calls(r, "NewConnection")) = 1
              /\ \A k \in DOMAIN conns[r] : conns[r][k].closes = 1
              /\ SetupFailed(r, "data") <=> invoked = {}

\* the data handler of request r was invoked and returned no error
DataHandlerSucceeded(r) ==
    \E i \in Calls(r, dataCommands[req[r].command]) : log[r][i].ok

\* C15 as claimed: a request for a registered data command opens one
\* connection, invokes the data handler once, takes no wake-up and no settle
\* delay, closes the connection, and is answered 200 with the value read
\* whenever the handler succeeded and 500 when the connection setup or the
\* handler failed.
C15_DataCommandOnce ==
    \A r \in Reqs :
        (/\ req[r].endpoint = "data"
         /\ req[r].vin # ""
         /\ req[r].command \in DOMAIN dataCommands)
        =>
        /\ DataCommandCalls(r)
        /\ (pc[r] = "done" /\ resp[r].status # 401) =>
              IF DataHandlerSucceeded(r)
              THEN /\ resp[r].status = 200
                   /\ resp[r].val = ret[r].val
              ELSE resp[r] = HttpError(500)

\* C15 amended: as claimed, but the answer to a succeeded handler is 200
\* with the value read only when json.Marshal can encode the value; when
\* the value is a NaN or infinite battery range the answer is 500 with no
\* value, as it is when the connection setup or the handler failed.
C15_DataCommandOnceEncodable ==
    \A r \in Reqs :
        (/\ req[r].endpoint = "data"
         /\ req[r].vin # ""
         /\ req[r].command \in DOMAIN dataCommands)
        =>
        /\ DataCommandCalls(r)
        /\ (pc[r] = "done" /\ resp[r].status # 401) =>
              IF DataHandlerSucceeded(r) /\ ~MarshalFails(ret[r].val)
              THEN /\ resp[r] = [status |-> 200, val |-> ret[r].val, text |-> ""]
                   /\ req[r].command # "get_charge_state" =>
                         resp[r].val = DataValue(req[r].command, state[r])
                   /\ resp[r].val # NoValue
              ELSE resp[r] = HttpError(500)

\* get_battery_range of a vehicle that reports NaN: the handler succeeded
\* after one GetState, the answer is 500 and the connection is closed
C15_Witness ==
    \E r \in Reqs :
        /\ req[r].endpoint = "data"
        /\ req[r].command = "get_battery_range"
        /\ pc[r] = "done"
        /\ state[r].BatteryRange = NaN
        /\ DataHandlerSucceeded(r)
        /\ resp[r] = HttpError(500)
        /\ Cardinality(Calls(r, "getBatteryRange")) = 1
        /\ Len(conns[r]) = 1
        /\ conns[r][1].closes = 1

----------------------------------------------------------------------------
\* the log positions of the calls of kind op on connection k
CallsOn(r, op, k) == { i \in DOMAIN log[r] : IsCall(r, i, op, k) }

\* C16: the attempts of one retry loop all run on the connection that was
\* prepared for it: NewConnection, NewVehicle and Connect (and StartSession,
\* unless the command is pair) were each called once on it, successfully
\* and before the first attempt; from the first attempt to the last the
\* log holds nothing but handler invocations and their remote commands on
\* this connection; Disconnect and Close come only after the last attempt;
\* and all attempts of one execCommand call share one connection.
C16_RetriesShareConnection ==
    \A r \in Reqs :
        /\ \A k \in DOMAIN conns[r] :
              LET A == Attempts(r, k)
              IN  A # {} =>
                    LET first == CHOOSE i \in A : \A j \in A : i <= j
                        last  == CHOOSE i \in A : \A j \in A : j <= i
                    IN  /\ \A op \in {"NewConnection", "NewVehicle", "Connect"} :
                              /\ Cardinality(CallsOn(r, op, k)) = 1
                              /\ \A i \in CallsOn(r, op, k) : log[r][i].ok /\ i < first
                        /\ Cardinality(CallsOn(r, "StartSession", k)) =
                              (IF conns[r][k].cmd = "pair" THEN 0 ELSE 1)
                        /\ \A i \in CallsOn(r, "StartSession", k) : log[r][i].ok /\ i < first
                        /\ \A i \in first..last :
                              /\ log[r][i].conn = k
                              /\ log[r][i].op \in HandlerOps \cup RemoteOps
                              /\ log[r][i].call = log[r][first].call
                        /\ \A i \in CallsOn(r, "Disconnect", k) \cup CallsOn(r, "Close", k) :
                              i > last
        /\ \A i, j \in DOMAIN log[r] :
              (/\ log[r][i].op \in HandlerOps
               /\ log[r][j].op \in HandlerOps
               /\ log[r][i].call = log[r][j].call) => log[r][i].conn = log[r][j].conn
        /\ pc[r] = "retryCommand" =>
              /\ conns[r][Cur(r)].connected
              /\ conns[r][Cur(r)].closes = 0
              /\ conns[r][Cur(r)].disconnects = 0

\* three attempts of charge_stop on one connection, torn down afterwards
C16_Witness ==
    \E r \in Reqs : \E k \in DOMAIN conns[r] :
        /\ conns[r][k].cmd = "charge_stop"
        /\ Cardinality(Attempts(r, k)) = 3
        /\ Cardinality(CallsOn(r, "Connect", k)) = 1
        /\ Cardinality(CallsOn(r, "StartSession", k)) = 1
        /\ conns[r][k].closes = 1

----------------------------------------------------------------------------
\* the connection k of request r is prepared: a handler has run on it
Prepared(r, k) ==
    \E i \in DOMAIN log[r] :
        log[r][i].conn = k /\ log[r][i].op \in HandlerOps \cup DataOps

\* C17: on a connection opened for pair StartSession is never called; on a
\* connection opened for wake_up every StartSession call is given the
\* VCSEC domain only, on a connection for any other command the
\* unrestricted domains; and a connection for a command other than pair is
\* prepared only after one successful StartSession.
C17_HandshakeScope ==
    \A r \in Reqs : \A k \in DOMAIN conns[r] :
        LET S   == CallsOn(r, "StartSession", k)
            cmd == conns[r][k].cmd
        IN  /\ cmd = "pair" => (S = {} /\ conns[r][k].session = "none")
            /\ \A i \in S :
                  log[r][i].arg = (IF cmd = "wake_up" THEN "vcsec" ELSE "all")
            /\ Cardinality(S) <= 1
            /\ conns[r][k].session # "none" =>
                  /\ conns[r][k].session = (IF cmd = "wake_up" THEN "vcsec" ELSE "all")
                  /\ \E i \in S : log[r][i].ok
            /\ (Prepared(r, k) /\ cmd # "pair") =>
                  \E i \in S :
                      /\ log[r][i].ok
                      /\ \A j \in DOMAIN log[r] :
                            (log[r][j].conn = k /\ log[r][j].op \in HandlerOps \cup DataOps)
                                => i < j

\* the pair handler has run on a connection without a handshake, while the
\* wake-up connection of another request holds a VCSEC-only session
C17_Witness ==
    \E r1, r2 \in Reqs :
        /\ \E k \in DOMAIN conns[r1] :
              /\ conns[r1][k].cmd = "pair"
              /\ Prepared(r1, k)
              /\ CallsOn(r1, "StartSession", k) = {}
        /\ \E k \in DOMAIN conns[r2] :
              /\ conns[r2][k].cmd = "wake_up"
              /\ Prepared(r2, k)
              /\ conns[r2][k].session = "vcsec"

----------------------------------------------------------------------------
\* a username and a password are configured
CredentialsConfigured == cfg.Username # "" /\ cfg.Password # ""

\* the request carries Basic Auth with the configured username and password
CredentialsMatch(q) ==
    q.auth.ok /\ q.auth.username = cfg.Username /\ q.auth.password = cfg.Password

\* C18: with a username and a password configured, a request without
\* Basic Auth or with a username or password that differs is answered 401
\* and never gets past validateAuth (no handler, no connection, no library
\* call), so that whatever reached a handler carried matching credentials;
\* with no credentials configured no request is answered 401 and every
\* request reaches its handler.
C18_AuthGate ==
    \A r \in Reqs :
        req[r] # NoReq =>
            /\ (CredentialsConfigured /\ ~CredentialsMatch(req[r])) =>
                  /\ pc[r] \in {"validateAuth", "done"}
                  /\ call[r] = "none"
                  /\ conns[r] = <<>>
                  /\ log[r] = <<>>
                  /\ pc[r] = "done" => resp[r] = HttpError(401)
            /\ (CredentialsConfigured /\ CredentialsMatch(req[r])) => resp[r].status # 401
            /\ (cfg.Username = "" /\ cfg.Password = "") =>
                  /\ resp[r].status # 401
                  /\ pc[r] = "done" => (call[r] # "none" \/ resp[r].status = 400)
            /\ resp[r].status = 401 => (CredentialsConfigured /\ ~CredentialsMatch(req[r]))

\* with admin/secret configured: a request with the right username and a
\* wrong password has been answered 401
C18_Witness ==
    \E r \in Reqs :
        /\ CredentialsConfigured
        /\ req[r].auth.ok
        /\ req[r].auth.username = cfg.Username
        /\ req[r].auth.password # cfg.Password
        /\ pc[r] = "done"
        /\ resp[r] = HttpError(401)

----------------------------------------------------------------------------
\* a ChargeStop answered with the conflict that means "already off"
StopConflict(e) ==
    e.op = "ChargeStop" /\ ~e.ok /\ StringsContains(e.msg, <<"not_charging">>)

\* C19: an invocation of the charge handler whose enable parameter is
\* missing or no string fails and sends no remote command; with the string
\* "true" it sends ChargeStart and succeeds exactly when charge_start
\* would (the vehicle accepted, or answered already_started or
\* is_charging); with any other string it sends ChargeStop and succeeds
\* exactly when charge_stop would (accepted, or answered not_charging).
C19_ChargeDelegates ==
    \A r \in Reqs : \A i \in DOMAIN log[r] :
        log[r][i].op = "cmdChargeEnable" =>
            LET m     == body[r].kv
                isStr == "enable" \in DOMAIN m /\ m["enable"].t = "string"
            IN  IF ~isStr
                THEN ~log[r][i].ok /\ ~SentAfter(r, i)
                ELSE /\ SentAfter(r, i)
                     /\ log[r][i + 1].conn = log[r][i].conn
                     /\ (i + 1 < Len(log[r])) => log[r][i + 2].op \notin RemoteOps
                     /\ IF m["enable"].s = <<"t", "r", "u", "e">>
                        THEN /\ log[r][i + 1].op = "ChargeStart"
                             /\ log[r][i].ok <=>
                                   (log[r][i + 1].ok \/ StartConflict(log[r][i + 1]))
                        ELSE /\ log[r][i + 1].op = "ChargeStop"
                             /\ log[r][i].ok <=>
                                   (log[r][i + 1].ok \/ StopConflict(log[r][i + 1]))

\* charge with {"enable": "false"}: ChargeStop was answered not_charging
\* and the request answered 200 true after this one invocation
C19_Witness ==
    \E r \in Reqs : \E i \in DOMAIN log[r] :
        /\ req[r].command = "charge"
        /\ "enable" \in DOMAIN body[r].kv
        /\ body[r].kv["enable"] = JString(<<"f", "a", "l", "s", "e">>)
        /\ log[r][i].op = "cmdChargeEnable"
        /\ log[r][i].ok
        /\ StopConflict(log[r][i + 1])
        /\ Cardinality(Calls(r, "cmdChargeEnable")) = 1
        /\ pc[r] = "done"
        /\ resp[r] = SendJSON(JBool(TRUE))

----------------------------------------------------------------------------
\* C20: a POST to .../command/wakeup, the "Wake vehicle" endpoint of the
\* README, runs the wake-up handler as the requested command, and once a
\* wake signal has been sent successfully the request is answered 200 true.
C20_DocumentedWakeEndpoint ==
    \A r \in Reqs :
        (/\ req[r].endpoint = "command"
         /\ req[r].command = "wakeup"
         /\ pc[r] = "done"
         /\ \E i \in Calls(r, "Wakeup") : log[r][i].ok)
        =>
        /\ \E i \in Calls(r, "cmdWakeUp") : log[r][i].call = "main"
        /\ resp[r] = SendJSON(JBool(TRUE))

----------------------------------------------------------------------------
\* what request r owns: its position, parameters, connections, counters,
\* results, response and log
Owned(r) ==
    <<pc[r], call[r], body[r], conns[r], tries[r], err[r], val[r], state[r], ret[r],
      resp[r], log[r]>>

\* every request is over (or there is none)
AllDone == \A r \in Reqs : pc[r] \in {"done", "off"}

\* C21: in every step at most one request's state changes, and a request's
\* connections change only in a step of that request (its own position or
\* log moves): connections and vehicle handles are created, used,
\* disconnected and closed by their request only; and when all requests are
\* over, every connection that was opened has been closed.
C21_NoSharedMutableState ==
    [][ /\ \A r1, r2 \in Reqs :
              (Owned(r1)' # Owned(r1) /\ Owned(r2)' # Owned(r2)) => r1 = r2
        /\ \A r \in Reqs :
              conns[r]' # conns[r] => (pc[r]' # pc[r] \/ log[r]' # log[r])
        /\ AllDone' =>
              \A r \in Reqs : \A k \in DOMAIN conns[r]' : conns[r][k]'.closes = 1
      ]_vars

\* two concurrent requests: the first is over and its connection closed
\* while the second still holds its open connection
C21_Witness ==
    /\ pc[1] = "done"
    /\ Len(conns[1]) = 1
    /\ conns[1][1].closes = 1
    /\ pc[2] \in {"retryCommand", "cmdFunc"}
    /\ Len(conns[2]) = 1
    /\ conns[2][1].closes = 0

----------------------------------------------------------------------------
\* C22: every connection that prepareConnection opens has the 5 s timeout
\* when it is opened for a data-read command and the 30 s timeout when it
\* is opened for any other command (the wake_up sub-command included).
C22_TimeoutByCommandClass ==
    \A r \in Reqs : \A k \in DOMAIN conns[r] :
        /\ conns[r][k].timeout \in {5, 30}
        /\ conns[r][k].timeout = 5 <=> conns[r][k].cmd \in DOMAIN dataCommands
        /\ conns[r][k].cmd \in DOMAIN dataCommands => req[r].endpoint = "data"

\* a get_soc request has opened its connection with 5 s while a wake_up
\* request has opened its connection with 30 s
C22_Witness ==
    \E r1, r2 \in Reqs :
        /\ \E k \in DOMAIN conns[r1] : conns[r1][k].cmd = "get_soc" /\ conns[r1][k].timeout = 5
        /\ \E k \in DOMAIN conns[r2] : conns[r2][k].cmd = "wake_up" /\ conns[r2][k].timeout = 30

----------------------------------------------------------------------------
\* the command of request r itself failed, after its wake-up had succeeded
CommandFailed(r) == SetupFailed(r, "main") \/ RetriesExhausted(r, "main")

\* C23: the answer to a request whose wake-up sub-command failed differs
\* from the answer to a request whose own command failed.
C23_WakeFailureDistinct ==
    \A r1, r2 \in Reqs :
        (/\ pc[r1] = "done" /\ WakeFailed(r1)
         /\ pc[r2] = "done" /\ CommandFailed(r2))
        => resp[r1] # resp[r2]

----------------------------------------------------------------------------
\* C24: when three attempts of a retry loop have failed, the error that
\* execCommand returns is "retrying command <name> failed: too many
\* retries", whatever errors the three attempts produced: nothing of their
\* messages is in it.
C24_TerminalErrorIsFixed ==
    \A r \in Reqs :
        (/\ call[r] \in {"wake", "main"}
         /\ pc[r] \in {"deferred", "return"}
         /\ RetriesExhausted(r, call[r]))
        =>
        /\ err[r].msg = <<"retrying command", CurCommand(r), "failed:", "too many retries">>
        /\ \A i \in DOMAIN log[r] :
              (log[r][i].call = call[r] /\ log[r][i].op \in RemoteOps /\ ~log[r][i].ok) =>
                  \A t \in 1..Len(log[r][i].msg) :
                      ~StringsContains(err[r].msg, <<log[r][i].msg[t]>>)

\* three attempts of charge_stop have failed, with different errors, and
\* "too many retries" is being returned
C24_Witness ==
    \E r \in Reqs : \E i, j \in DOMAIN log[r] :
        /\ call[r] = "main"
        /\ pc[r] = "return"
        /\ RetriesExhausted(r, "main")
        /\ log[r][i].op = "ChargeStop" /\ ~log[r][i].ok
        /\ log[r][j].op = "ChargeStop" /\ ~log[r][j].ok
        /\ log[r][i].msg # log[r][j].msg
        /\ StringsContains(err[r].msg, <<"too many retries">>)

----------------------------------------------------------------------------
\* the handler invocations, action and data
Invocations(r) == { i \in DOMAIN log[r] : log[r][i].op \in HandlerOps \cup DataOps }

\* C25: every handler invocation, action or data, is on a connection whose
\* Connect succeeded before and, unless it was opened for pair, whose
\* StartSession succeeded before, and no Disconnect or Close of that
\* connection precedes it; an execCommand / execDataCommand call in which a
\* step of prepareConnection failed has no handler invocation.
C25_HandlerOnlyOnPreparedHandle ==
    \A r \in Reqs :
        /\ \A i \in Invocations(r) :
              LET k == log[r][i].conn
              IN  /\ k \in DOMAIN conns[r]
                  /\ \E j \in 1..(i - 1) : IsCall(r, j, "NewVehicle", k) /\ log[r][j].ok
                  /\ \E j \in 1..(i - 1) : IsCall(r, j, "Connect", k) /\ log[r][j].ok
                  /\ conns[r][k].cmd # "pair" =>
                        \E j \in 1..(i - 1) : IsCall(r, j, "StartSession", k) /\ log[r][j].ok
                  /\ \A j \in 1..(i - 1) :
                        ~IsCall(r, j, "Disconnect", k) /\ ~IsCall(r, j, "Close", k)
                  /\ ~SetupFailed(r, log[r][i].call)
        /\ \A c \in {"wake", "main", "data"} :
              SetupFailed(r, c) =>
                  \A i \in DOMAIN log[r] :
                      log[r][i].call = c => log[r][i].op \notin HandlerOps \cup DataOps \cup RemoteOps

\* the handshake of a get_soc_limit request failed and the request is
\* over: the connection is torn down and no handler has run
C25_Witness ==
    \E r \in Reqs :
        /\ req[r].command = "get_soc_limit"
        /\ pc[r] = "done"
        /\ \E i \in Calls(r, "StartSession") : ~log[r][i].ok
        /\ Invocations(r) = {}
        /\ conns[r][1].closes = 1

----------------------------------------------------------------------------
\* the parameter a command needs
ParamKey(command) ==
    CASE command = "set_charging_amps" -> "charging_amps"
      [] command = "set_soc_limit"     -> "soc_limit"
      [] command = "charge"            -> "enable"

\* the request's body is acceptable JSON, but the parameter its command
\* needs is missing, is no JSON string, or (for the two setters) is a
\* string that encodes no 32-bit integer
HasBadParam(q) ==
    /\ q.command \in {"set_charging_amps", "set_soc_limit", "charge"}
    /\ q.raw.kind \in {"empty", "null", "object"}
    /\ LET key == ParamKey(q.command)
           m   == q.raw.kv
       IN  \/ key \notin DOMAIN m
           \/ m[key].t # "string"
           \/ q.command # "charge" /\ ~Decimal(m[key].s).valid

\* C26: a POST whose parameter is missing, of the wrong JSON type or
\* unparsable is never answered 400 and is dispatched; no remote command of
\* its own command is ever sent; every invocation of its handler fails;
\* once answered the status is 500, and unless the wake-up or the
\* connection setup failed before, the handler was invoked exactly 3 times.
C26_BadParameterIsHandlerFailure ==
    \A r \in Reqs :
        (/\ req[r].endpoint = "command"
         /\ req[r].vin # ""
         /\ HasBadParam(req[r]))
        =>
        /\ resp[r].status # 400
        /\ \A i \in DOMAIN log[r] :
              log[r][i].call = "main" =>
                  /\ log[r][i].op \notin RemoteOps
                  /\ log[r][i].op \in HandlerOps => ~log[r][i].ok
        /\ (pc[r] = "done" /\ resp[r].status # 401) =>
              /\ Dispatched(r)
              /\ resp[r] = HttpError(500)
              /\ (~WakeFailed(r) /\ ~SetupFailed(r, "main")) =>
                    Cardinality({ i \in DOMAIN log[r] :
                        log[r][i].call = "main" /\ log[r][i].op \in HandlerOps }) = 3

\* {"charging_amps": 16}, a number: answered 500 after three invocations
\* of the handler
C26_Witness ==
    \E r \in Reqs :
        /\ req[r].command = "set_charging_amps"
        /\ req[r].raw.kind = "object"
        /\ "charging_amps" \in DOMAIN req[r].raw.kv
        /\ req[r].raw.kv["charging_amps"] = JNumber(16)
        /\ pc[r] = "done"
        /\ resp[r] = HttpError(500)
        /\ Cardinality(Calls(r, "cmdSetChargingAmps")) = 3

----------------------------------------------------------------------------
\* the open connections to a target, over all requests
OpenTo(vin) ==
    { <<r, k>> \in Reqs \X {1, 2} :
        k \in DOMAIN conns[r] /\ conns[r][k].vin = vin /\ conns[r][k].closes = 0 }

\* C27: nothing in this layer makes a request wait for another request to
\* the same target: a request that is about to open its connection can
\* open it at once, also while another request holds an open connection to
\* the same target, which leaves two connections to one target open.
C27_NoMutualExclusion ==
    \A r \in Reqs :
        pc[r] = "NewConnection" =>
            ENABLED (/\ NewConnection(r)
                     /\ Len(conns'[r]) = Len(conns[r]) + 1
                     /\ conns'[r][Len(conns'[r])].closes = 0)

\* two requests for VIN1 hold an open connection each
C27_Witness ==
    /\ req[1].vin = "VIN1"
    /\ req[2].vin = "VIN1"
    /\ Cardinality(OpenTo("VIN1")) = 2

----------------------------------------------------------------------------
\* C28: ReadConfig runs at most once; the configuration instance is written
\* only by that one run, which happens in the main goroutine before the
\* server listens; once the server listens the instance is the fully
\* initialised one (port, user name and password as ReadConfig computes them
\* from the environment), so every later GetConfig call returns that same
\* instance; and no step of a request changes it.
C28_ConfigInitialisedOnce ==
    [][/\ reads' <= 1
       /\ (cfg' # cfg => main = "serveHTTP" /\ reads = 0 /\ reads' = 1)
       /\ (main' \in {"listen"} \cup Serving =>
              /\ reads' = 1
              /\ cfg'.Port = Atoi(getEnv(environ.PORT, DefaultPort)).val
              /\ cfg'.Username = environ.Username
              /\ cfg'.Password = environ.Password)
       /\ ((\E r \in Reqs : pc'[r] # pc[r]) => cfg' = cfg)]_vars

\* two concurrent requests have both called GetConfig in validateAuth and in
\* prepareConnection, after the call in serveHTTP
C28_Witness ==
    /\ reads = 1
    /\ configOnce = "done"
    /\ \A r \in Reqs : Calls(r, "NewVehicle") # {}

----------------------------------------------------------------------------
\* C29: a request on the command endpoint that passed the target and body
\* checks with a name that is no registered action command takes the
\* wake_up sub-command first: every connection it opens is opened for
\* wake_up, at most one, the only remote command it sends is Wakeup, and
\* nothing is logged for an execCommand call of the unregistered name; it
\* is answered 404 exactly when the wake-up succeeded (connection opened,
\* Wakeup acknowledged, settle delay taken) and 500 otherwise.
C29_WakeBeforeLookup ==
    \A r \in Reqs :
        (/\ req[r].endpoint = "command"
         /\ Dispatched(r)
         /\ req[r].command \notin DOMAIN commands)
        =>
        /\ WakeUpTaken(r)
        /\ Len(conns[r]) <= 1
        /\ \A k \in DOMAIN conns[r] : conns[r][k].cmd = "wake_up"
        /\ \A i \in DOMAIN log[r] :
              /\ log[r][i].call \in {"wake", "handler"}
              /\ log[r][i].op \in RemoteOps => log[r][i].op = "Wakeup"
        /\ pc[r] = "done" =>
              /\ Calls(r, "NewConnection") # {}
              /\ resp[r].status \in {404, 500}
              /\ resp[r].status = 404 <=> RetrySucceeded(r, "wake")
              /\ resp[r].status = 404 =>
                    /\ Len(conns[r]) = 1
                    /\ \E i \in Calls(r, "Wakeup") : log[r][i].ok
                    /\ \E i \in Calls(r, "Wakeup"), j \in Calls(r, "Sleep") :
                          i < j /\ j = Len(log[r])

\* a data-command name sent to the command endpoint was answered 404 after
\* the wake signal was acknowledged
C29_Witness ==
    /\ req[1].endpoint = "command"
    /\ req[1].command = "get_soc"
    /\ pc[1] = "done"
    /\ resp[1].status = 404
    /\ \E i \in Calls(1, "Wakeup") : log[1][i].ok

----------------------------------------------------------------------------
\* C30: a pair or wake_up request on the command endpoint takes no wake_up
\* sub-command and no settle delay: nothing is logged for a wake call, no
\* Sleep is logged, NewConnection is called at most once (exactly once by
\* the time a dispatched request is answered) and at most one connection is
\* open or was open; the only remote command sent is SendAddKeyRequest for
\* pair and Wakeup for wake_up, at most 3 times, one per handler invocation.
C30_PairAndWakeUpDirect ==
    \A r \in Reqs :
        (req[r].endpoint = "command" /\ req[r].command \in {"pair", "wake_up"})
        =>
        LET sent == IF req[r].command = "pair" THEN "SendAddKeyRequest" ELSE "Wakeup"
        IN  /\ ~WakeUpTaken(r)
            /\ Calls(r, "Sleep") = {}
            /\ Cardinality(Calls(r, "NewConnection")) <= 1
            /\ Len(conns[r]) <= 1
            /\ \A k \in DOMAIN conns[r] : conns[r][k].cmd = req[r].command
            /\ \A i \in DOMAIN log[r] :
                  /\ log[r][i].call = "main"
                  /\ log[r][i].op \in RemoteOps =>
                        /\ log[r][i].op = sent
                        /\ i > 1
                        /\ log[r][i - 1].op = commands[req[r].command]
            /\ Cardinality(Calls(r, sent)) <= 3
            /\ Cardinality(Calls(r, commands[req[r].command])) <= 3
            /\ (pc[r] = "done" /\ Dispatched(r)) =>
                  Cardinality(Calls(r, "NewConnection")) = 1

\* a pair request was answered after SendAddKeyRequest was sent three times
\* on its one connection
C30_Witness ==
    /\ req[1].endpoint = "command"
    /\ req[1].command = "pair"
    /\ pc[1] = "done"
    /\ Len(conns[1]) = 1
    /\ Cardinality(Calls(1, "SendAddKeyRequest")) = 3

----------------------------------------------------------------------------
\* C31: on every connection Disconnect and Close are each called at most
\* once, and where Disconnect is called the Close of the same connection is
\* the request's next call (made already, or the one call still to make):
\* after a failed handshake in prepareConnection and in the deferred
\* teardown of execCommand and execDataCommand alike, the vehicle handle is
\* disconnected before the transport connection is closed.
C31_DisconnectBeforeClose ==
    \A r \in Reqs : \A k \in DOMAIN conns[r] :
        /\ Cardinality(CallsOn(r, "Disconnect", k)) <= 1
        /\ Cardinality(CallsOn(r, "Close", k)) <= 1
        /\ conns[r][k].disconnects = Cardinality(CallsOn(r, "Disconnect", k))
        /\ \A c \in CallsOn(r, "Close", k) : \A d \in CallsOn(r, "Disconnect", k) : d < c
        /\ \A d \in CallsOn(r, "Disconnect", k) :
              IF d < Len(log[r])
              THEN IsCall(r, d + 1, "Close", k)
              ELSE /\ k = Cur(r)
                   /\ pc[r] \in {"teardown", "deferred"}
                   /\ todo[r] = <<"Close">>

\* a request whose wake_up connection was torn down by the deferred calls
\* and whose command connection was torn down after a failed handshake
C31_Witness ==
    \E r \in Reqs :
        /\ Len(conns[r]) = 2
        /\ RetrySucceeded(r, "wake")
        /\ \E i \in CallsOn(r, "StartSession", 2) : ~log[r][i].ok
        /\ \A k \in {1, 2} :
              /\ CallsOn(r, "Disconnect", k) # {}
              /\ CallsOn(r, "Close", k) # {}

----------------------------------------------------------------------------
\* the request was answered: its handler returned after writing a response
Answered(r) == pc[r] = "done" /\ resp[r] # NoResp

\* the handler invocations of request r, action and data
ActionInvocations(r, c) ==
    { i \in DOMAIN log[r] : log[r][i].op \in HandlerOps /\ log[r][i].call = c }

\* the handler of request r has been entered and has not returned
InHandler(r) == pc[r] \notin {"off", "validateAuth", "done"}

\* C32: every request whose handler has been entered is answered in the
\* end, and at every moment a request on the command endpoint has called
\* NewConnection at most twice and invoked action handlers at most 6 times,
\* 3 in the wake_up call and 3 in the command's call, and no data handler;
\* a request on the data endpoint has called NewConnection at most once and
\* invoked one data handler at most, and no action handler.
C32_TerminatesWithinBounds ==
    /\ \A r \in Reqs : InHandler(r) ~> Answered(r)
    /\ [](\A r \in Reqs :
            /\ Cardinality(Calls(r, "NewConnection")) <= 2
            /\ Len(conns[r]) <= 2
            /\ Cardinality(ActionInvocations(r, "wake")) <= 3
            /\ Cardinality(ActionInvocations(r, "main")) <= 3
            /\ Cardinality(Invocations(r)) <= 6
            /\ req[r].endpoint = "command" =>
                  \A i \in Invocations(r) : log[r][i].op \in HandlerOps
            /\ req[r].endpoint = "data" =>
                  /\ Cardinality(Calls(r, "NewConnection")) <= 1
                  /\ Len(conns[r]) <= 1
                  /\ Cardinality(Invocations(r)) <= 1
                  /\ \A i \in Invocations(r) : log[r][i].op \in DataOps)

----------------------------------------------------------------------------
\* the characters spell an integer: an optional sign and one digit or more
IsInteger(s) ==
    LET digits == IF Len(s) >= 1 /\ s[1] \in {"+", "-"} THEN Tail(s) ELSE s
    IN  digits # <<>> /\ \A i \in 1..Len(digits) : IsDigit(digits[i])

\* C33: in every invocation of cmdSetChargingAmps / cmdSetSocLimit whose
\* parameter is a string spelling an integer: when the integer is outside
\* the signed 32-bit range the invocation fails with the parse error and
\* sends no remote command; otherwise it sends the remote command once with
\* exactly the integer spelled, whether or not it is negative or above 100.
\* No remote command of a setter ever carries another value than the one
\* its parameter spells.
C33_NoTruncatedValueForwarded ==
    \A r \in Reqs : \A i \in DOMAIN log[r] :
        log[r][i].op \in {"cmdSetChargingAmps", "cmdSetSocLimit"} =>
            LET key  == SetterKey(log[r][i].op)
                m    == body[r].kv
                isStr == key \in DOMAIN m /\ m[key].t = "string"
                sent == SentAfter(r, i)
                h    == CallCmdFunc(log[r][i].op, m, Nil)
            IN  /\ (isStr /\ IsInteger(m[key].s) /\ ~Decimal(m[key].s).valid) =>
                      /\ ~sent
                      /\ ~log[r][i].ok
                      /\ h.err # Nil
                      /\ h.err.msg[1] \in {"failed to parse charging_amps to int:",
                                           "failed to parse soc_limit to int:"}
                /\ (isStr /\ Decimal(m[key].s).valid) => sent
                /\ sent =>
                      /\ isStr
                      /\ Decimal(m[key].s).valid
                      /\ log[r][i + 1].op = SetterRemote(log[r][i].op)
                      /\ log[r][i + 1].arg = Decimal(m[key].s).value
                      /\ log[r][i + 1].arg \in MinInt32..MaxInt32

\* soc_limit "-2147483649": three invocations, each failed, nothing sent
C33_Witness ==
    /\ req[1].command = "set_soc_limit"
    /\ pc[1] = "done"
    /\ "soc_limit" \in DOMAIN body[1].kv
    /\ body[1].kv["soc_limit"] = JString(<<"-", "2", "1", "4", "7", "4", "8", "3", "6", "4", "9">>)
    /\ Cardinality(Calls(1, "cmdSetSocLimit")) = 3
    /\ Calls(1, "ChangeChargeLimit") = {}

----------------------------------------------------------------------------
\* exactly one of USERNAME and PASSWORD is set in the environment
HalfConfigured == (environ.Username = "") # (environ.Password = "")

\* C34: when the configured username or the configured password is empty,
\* no request is answered 401 and every request, with or without Basic
\* Auth and whatever its credentials, goes from validateAuth to its
\* handler: once it has left validateAuth it is in the handler or past it,
\* and once it is answered the handler has dispatched it or answered 400.
\* This holds in particular with exactly one of the two configured.
C34_HalfConfiguredBypass ==
    \A r \in Reqs :
        (req[r] # NoReq /\ (environ.Username = "" \/ environ.Password = "")) =>
            /\ resp[r].status # 401
            /\ pc[r] = "validateAuth" => ENABLED (ValidateAuth(r) /\ pc'[r] = "handler")
                                           \/ main \notin Serving
            /\ pc[r] = "done" => (call[r] # "none" \/ resp[r].status = 400)

\* only a password is configured: a pair request that carries Basic Auth
\* with the user name admin went through to the vehicle and was answered 200
C34_Witness ==
    /\ HalfConfigured
    /\ environ.Password = "secret"
    /\ req[1].endpoint = "command"
    /\ ~CredentialsMatch(req[1])
    /\ req[1].auth.ok
    /\ req[1].auth.username = "admin"
    /\ pc[1] = "done"
    /\ resp[1].status = 200
    /\ Calls(1, "SendAddKeyRequest") # {}

----------------------------------------------------------------------------
\* C35: when the data handler of a request returned an error, the value it
\* returned with the error is dropped: execDataCommand returns no value,
\* and the request is answered 500 with the text Internal Server Error and
\* no JSON value.  So the "A" that getChargeState returns with a failed
\* state read is in no response.
C35_DataErrorDropsValue ==
    \A r \in Reqs :
        (req[r] # NoReq /\ call[r] = "data" /\ ret[r].err # Nil) =>
            /\ val[r] = NoValue
            /\ err[r] # Nil
            /\ resp[r].val = NoValue
            /\ resp[r].status \in {0, 500}
            /\ pc[r] = "done" => resp[r] = HttpError(500)
            /\ req[r].command = "get_charge_state" =>
                  /\ ret[r].val = JString(<<"A">>)
                  /\ resp[r].val # ret[r].val

\* a get_charge_state request whose state read failed: the handler returned
\* "A" with the error and the request was answered 500
C35_Witness ==
    /\ req[1].command = "get_charge_state"
    /\ call[1] = "data"
    /\ ret[1].val = JString(<<"A">>)
    /\ ret[1].err # Nil
    /\ pc[1] = "done"
    /\ resp[1] = HttpError(500)

----------------------------------------------------------------------------
\* the file PUBLIC_KEY resolves to: the value set or the default, or the
\* cache file when the value is an http(s) address
ResolvedPublicKeyFile ==
    KeyFile(getEnv(environ.PUBLIC_KEY, DefaultPublicKeyFile), CachedPublicKeyFile)

\* C36: once the server listens, the configuration's public key is the key
\* in the file PUBLIC_KEY resolves to, whatever PRIVATE_KEY is, and every
\* SendAddKeyRequest of a pair request carries that key.
C36_PairSendsConfiguredPublicKey ==
    /\ main \in {"listen"} \cup Serving => cfg.PublicKey = KeyIn(ResolvedPublicKeyFile)
    /\ \A r \in Reqs : \A i \in Calls(r, "SendAddKeyRequest") :
          log[r][i].arg = KeyIn(ResolvedPublicKeyFile)

====
